---- MODULE Spec2Model ----
(***************************************************************************)
(* Roku trick-play pipeline: the Thumbnail Extractor (TrickPlayGenerator   *)
(* and its Lambda handler), the Manifest Composer (ManifestUpdater and     *)
(* its Lambda handler) and the Cache Invalidator (CacheInvalidator,        *)
(* CloudFrontHelper and its Lambda handler).                               *)
(*                                                                         *)
(* Text (playlists, manifests, object keys, URLs) is a sequence of tokens; *)
(* a token is a run of characters that the code never looks inside, so     *)
(* Python's substring test, str.replace and str.split are computed on the  *)
(* token sequences exactly as on the characters.                           *)
(***************************************************************************)
EXTENDS Integers, Sequences, FiniteSets, TLC

VARIABLES
    s3,         \* object storage of the bucket: key -> body
    cfg,        \* shared.config.Config as loaded from the environment
    cmp,        \* Composer handler invocations: process -> local state
    invq,       \* bodies published to the cache-invalidation queue
    mqDeleted,  \* receipt handles deleted from the manifest queue
    playlist0,  \* the master playlist before any invocation ran (history)
    cdn,        \* create_invalidation requests made to CloudFront, in order
    ivh,        \* the Invalidator handler invocation: local state
    caller,     \* a direct caller of CacheInvalidator.invalidate_cache
    ext,        \* Extractor handler invocations: process -> local state
    mq          \* bodies published to the manifest queue

vars == <<s3, cfg, cmp, invq, mqDeleted, playlist0, cdn, ivh, caller, ext, mq>>
composerVars == <<s3, cmp, invq, mqDeleted, playlist0>>
invalidatorVars == <<cdn, ivh, caller>>
extractorVars == <<ext, mq>>

None == "None"

-----------------------------------------------------------------------------
(* Bounds of the model *)

MaxThumbs == 2
MaxBatch == 2
MaxPaths == 2
MaxFrames == 2
MaxDeliveries == 3
MaxOutputs == 2

-----------------------------------------------------------------------------
(* Python str operations on token sequences *)

StartsAt(s, sub, i) ==
    /\ i >= 1
    /\ i + Len(sub) - 1 <= Len(s)
    /\ SubSeq(s, i, i + Len(sub) - 1) = sub

\* sub in s
Contains(s, sub) ==
    \E i \in 1..(Len(s) + 1) : StartsAt(s, sub, i)

\* s.find(sub) + 1: the first position of sub in s, 0 when there is none
FirstIndex(s, sub) ==
    IF Contains(s, sub)
    THEN CHOOSE i \in 1..(Len(s) + 1) :
            /\ StartsAt(s, sub, i)
            /\ \A j \in 1..(i - 1) : ~StartsAt(s, sub, j)
    ELSE 0

\* s.replace(old, new, 1)
ReplaceFirst(s, old, new) ==
    LET i == FirstIndex(s, old)
    IN  IF i = 0 THEN s
        ELSE SubSeq(s, 1, i - 1) \o new \o SubSeq(s, i + Len(old), Len(s))

\* s.replace(old, new), old non-empty: every non-overlapping occurrence, left to right
RECURSIVE ReplaceAll(_, _, _)
ReplaceAll(s, old, new) ==
    LET i == FirstIndex(s, old)
    IN  IF i = 0 THEN s
        ELSE SubSeq(s, 1, i - 1) \o new
                \o ReplaceAll(SubSeq(s, i + Len(old), Len(s)), old, new)

\* s.split(sep): the pieces between the occurrences of the one-token separator
RECURSIVE Split(_, _)
Split(s, sep) ==
    LET i == FirstIndex(s, <<sep>>)
    IN  IF i = 0 THEN <<s>>
        ELSE <<SubSeq(s, 1, i - 1)>> \o Split(SubSeq(s, i + 1, Len(s)), sep)

\* s.split(sep, 1): at most one cut
SplitOnce(s, sep) ==
    LET i == FirstIndex(s, <<sep>>)
    IN  IF i = 0 THEN <<s>>
        ELSE <<SubSeq(s, 1, i - 1), SubSeq(s, i + 1, Len(s))>>

\* sep.join(lines)
RECURSIVE Join(_, _)
Join(lines, sep) ==
    IF Len(lines) = 0 THEN <<>>
    ELSE IF Len(lines) = 1 THEN lines[1]
    ELSE lines[1] \o <<sep>> \o Join(Tail(lines), sep)

-----------------------------------------------------------------------------
(* shared/config.py *)

THUMBNAIL_INTERVAL == 10
THUMBNAIL_WIDTH == 320
THUMBNAIL_HEIGHT == 180
THUMBNAIL_BIG_WIDTH == 640
THUMBNAIL_BIG_HEIGHT == 360
THUMBNAIL_SMALL_BANDWIDTH == 16460
THUMBNAIL_BIG_BANDWIDTH == 32920

THUMBNAIL_SMALL_RESOLUTION ==
    ToString(THUMBNAIL_WIDTH) \o "x" \o ToString(THUMBNAIL_HEIGHT)
THUMBNAIL_BIG_RESOLUTION ==
    ToString(THUMBNAIL_BIG_WIDTH) \o "x" \o ToString(THUMBNAIL_BIG_HEIGHT)

Suffixes == {"small", "big"}

\* the resolution and bandwidth create_manifests_and_update_playlist passes per suffix
ResolutionOf(suffix) ==
    IF suffix = "small" THEN THUMBNAIL_SMALL_RESOLUTION ELSE THUMBNAIL_BIG_RESOLUTION
BandwidthOf(suffix) ==
    IF suffix = "small" THEN THUMBNAIL_SMALL_BANDWIDTH ELSE THUMBNAIL_BIG_BANDWIDTH

\* Python truth of a setting or an argument: None and "" are false
Truthy(x) == x # None /\ x # ""

\* Config.validate(): both required settings are present
ConfigValid(c) == Truthy(c.AWS_S3_BUCKET) /\ Truthy(c.AWS_CLOUDFRONT_DISTRIBUTION_ID)

-----------------------------------------------------------------------------
(* src/manifest_updater/updater.py: ManifestUpdater *)

DQ == "\""

\* _create_manifest: manifest_filename = f"thumbs_{resolution}.m3u8"
ManifestFilename(resolution) == "thumbs_" \o resolution \o ".m3u8"

\* _create_manifest: "../thumbs/" if "hls/" in media_path else "thumbs/"
RelativePath(media_path) ==
    IF Contains(media_path, <<"hls", "/">>) THEN "../thumbs/" ELSE "thumbs/"

\* _create_manifest: thumbnail_key.split("/")[-1]
ThumbnailName(thumbnail_key) ==
    LET parts == Split(thumbnail_key, "/") IN parts[Len(parts)]

ManifestHeader ==
    << <<"#EXTM3U">>,
       <<"#EXT-X-TARGETDURATION:" \o ToString(THUMBNAIL_INTERVAL)>>,
       <<"#EXT-X-VERSION:7">>,
       <<"#EXT-X-MEDIA-SEQUENCE:1">>,
       <<"#EXT-X-PLAYLIST-TYPE:VOD">>,
       <<"#EXT-X-IMAGES-ONLY">>,
       <<>> >>

ExtInfLine == <<"#EXTINF:" \o ToString(THUMBNAIL_INTERVAL) \o ".000,">>

TilesLine(resolution) ==
    <<"#EXT-X-TILES:RESOLUTION=" \o resolution \o ",LAYOUT=1x1,DURATION="
        \o ToString(THUMBNAIL_INTERVAL) \o ".000">>

\* the four lines _create_manifest appends for one thumbnail key
ManifestEntry(media_path, thumbnail_key, resolution) ==
    << ExtInfLine,
       TilesLine(resolution),
       <<RelativePath(media_path)>> \o ThumbnailName(thumbnail_key),
       <<>> >>

\* a loop that prepends each entry instead of appending it
RECURSIVE ManifestEntriesReversed(_, _, _)
ManifestEntriesReversed(media_path, thumbnails, resolution) ==
    IF Len(thumbnails) = 0 THEN <<>>
    ELSE ManifestEntriesReversed(media_path, Tail(thumbnails), resolution)
            \o ManifestEntry(media_path, Head(thumbnails), resolution)

\* the loop of _create_manifest over the thumbnail keys, in list order
RECURSIVE ManifestEntries(_, _, _)
ManifestEntries(media_path, thumbnails, resolution) ==
    IF Len(thumbnails) = 0 THEN <<>>
    ELSE ManifestEntry(media_path, Head(thumbnails), resolution)
            \o ManifestEntries(media_path, Tail(thumbnails), resolution)

\* manifest_content of _create_manifest
ManifestContent(media_path, thumbnails, resolution) ==
    Join(ManifestHeader \o ManifestEntries(media_path, thumbnails, resolution)
            \o << <<"#EXT-X-ENDLIST">> >>, "\n")

\* a manifest key that leaves the media path out
ManifestKeyUnscoped(media_path, resolution) == <<ManifestFilename(resolution)>>

\* manifest_key of _create_manifest
ManifestKey(media_path, resolution) == media_path \o <<ManifestFilename(resolution)>>

\* _update_main_playlist: hls_url.replace("s3://", "").split("/", 1); the key is
\* element [1], which does not exist when the rest of the URL has no "/"
PlaylistKeyParts(hls_url) == SplitOnce(ReplaceAll(hls_url, <<"s3://">>, <<>>), "/")

\* a test that never finds the playlist updated
AlreadyUpdatedNever(playlist_content, manifest_filename) == FALSE

\* a test that finds every playlist updated
AlreadyUpdatedAlways(playlist_content, manifest_filename) == TRUE

\* _update_main_playlist: the "already updated" test
AlreadyUpdated(playlist_content, manifest_filename) ==
    Contains(playlist_content, <<manifest_filename>>)

\* _update_main_playlist: image_stream_line
ImageStreamLine(manifest_filename, resolution, bandwidth) ==
    << "#EXT-X-IMAGE-STREAM-INF",
       ":BANDWIDTH=" \o ToString(bandwidth) \o ",RESOLUTION=" \o resolution
            \o ",CODECS=" \o DQ \o "jpeg" \o DQ \o ",URI=" \o DQ,
       manifest_filename,
       DQ,
       "\n" >>

\* a splice that puts the line behind the directive it looks for
UpdatedContentAfter(playlist_content, image_stream_line) ==
    IF Contains(playlist_content, <<"#EXT-X-STREAM-INF">>)
    THEN ReplaceFirst(playlist_content, <<"#EXT-X-STREAM-INF">>,
                      <<"#EXT-X-STREAM-INF">> \o image_stream_line)
    ELSE ReplaceAll(playlist_content, <<"#EXT-X-ENDLIST">>,
                    <<"#EXT-X-ENDLIST">> \o image_stream_line)

\* a splice that puts the line in the place of the directive it looks for
UpdatedContentReplacing(playlist_content, image_stream_line) ==
    IF Contains(playlist_content, <<"#EXT-X-STREAM-INF">>)
    THEN ReplaceFirst(playlist_content, <<"#EXT-X-STREAM-INF">>, image_stream_line)
    ELSE ReplaceAll(playlist_content, <<"#EXT-X-ENDLIST">>, image_stream_line)

\* _update_main_playlist: updated_content
UpdatedContent(playlist_content, image_stream_line) ==
    IF Contains(playlist_content, <<"#EXT-X-STREAM-INF">>)
    THEN ReplaceFirst(playlist_content, <<"#EXT-X-STREAM-INF">>,
                      image_stream_line \o <<"#EXT-X-STREAM-INF">>)
    ELSE ReplaceAll(playlist_content, <<"#EXT-X-ENDLIST">>,
                    image_stream_line \o <<"#EXT-X-ENDLIST">>)

\* _create_manifest: the status string of one resolution
StatusMessage(resolution) ==
    "Created " \o ManifestFilename(resolution) \o " for " \o resolution

\* S3Helper.put_object on the bucket
Put(store, key, body) ==
    [k \in DOMAIN store \cup {key} |-> IF k = key THEN body ELSE store[k]]

-----------------------------------------------------------------------------
(* src/manifest_updater/handler.py *)

\* _build_invalidation_paths
BuildInvalidationPaths(media_path) ==
    << <<"/">> \o media_path \o <<"play.m3u8">>,
       <<"/">> \o media_path \o <<"thumbs_320x180.m3u8">>,
       <<"/">> \o media_path \o <<"thumbs_640x360.m3u8">>,
       <<"/">> \o media_path \o <<"thumbs/*">> >>

HasField(msg, f) == f \in DOMAIN msg

\* message_body.get("small_thumbnails", []) and message_body.get("big_thumbnails", [])
ThumbnailsOf(msg, suffix) ==
    LET f == IF suffix = "small" THEN "small_thumbnails" ELSE "big_thumbnails"
    IN  IF HasField(msg, f) THEN msg[f] ELSE <<>>

-----------------------------------------------------------------------------
(* One Composer Lambda invocation: lambda_handler looping over its records and,   *)
(* inside a record, create_manifests_and_update_playlist stepping through its S3  *)
(* calls. A step ends at each call to S3 or SQS; what runs between two calls is   *)
(* local and belongs to the step of the call it leads to.                          *)

ComposerProcs == {"c1", "c2"}

NoResults == [x \in {} |-> None]

\* the record the loop of lambda_handler is at, and its parsed body
RecordOf(c) == c.records[c.idx]
MsgOf(c) == RecordOf(c).msg

\* except clauses that end the loop instead of going on with the next record
SkipRecordAborting(c, why) ==
    [c EXCEPT !.pc = "loop",
              !.idx = IF why = "ok" THEN c.idx + 1 ELSE Len(c.records) + 1,
              !.cur = None, !.content = <<>>, !.results = NoResults,
              !.outcomes = Append(c.outcomes, why)]

\* the per-record except clauses of lambda_handler: log, then the next record
SkipRecord(c, why) ==
    [c EXCEPT !.pc = "loop", !.idx = c.idx + 1, !.cur = None, !.content = <<>>,
              !.results = NoResults,
              !.outcomes = Append(c.outcomes, why)]

\* a handler that goes on to publish although the Composer raised
ComposerRaisesUnnoticed(c) ==
    [c EXCEPT !.pc = "publish", !.cur = None, !.content = <<>>,
              !.ret = Append(c.ret,
                    [rec |-> c.idx, raised |-> "ManifestGenerationError",
                     results |-> NoResults])]

\* create_manifests_and_update_playlist raising ManifestGenerationError into the loop
ComposerRaises(c) ==
    SkipRecord([c EXCEPT !.ret = Append(c.ret,
                    [rec |-> c.idx, raised |-> "ManifestGenerationError",
                     results |-> NoResults])],
               "composer_failed")

\* create_manifests_and_update_playlist returning its results to lambda_handler
ComposerReturns(c, results) ==
    [c EXCEPT !.pc = "publish", !.cur = None, !.content = <<>>, !.results = results,
              !.ret = Append(c.ret, [rec |-> c.idx, raised |-> None,
                                     results |-> results])]

\* a Composer that builds the small manifest whether or not it has thumbnails
ComposerBeginsUnguarded(c) ==
    [c EXCEPT !.pc = "put_manifest", !.cur = "small"]

\* the first resolution create_manifests_and_update_playlist works on
ComposerBegins(c) ==
    LET msg == MsgOf(c)
    IN  IF ThumbnailsOf(msg, "small") # <<>>
        THEN [c EXCEPT !.pc = "put_manifest", !.cur = "small"]
        ELSE IF ThumbnailsOf(msg, "big") # <<>>
        THEN [c EXCEPT !.pc = "put_manifest", !.cur = "big"]
        ELSE ComposerReturns(c, NoResults)

\* _create_manifest returned for the current resolution: record its status, then
\* the big resolution if it is still to do, else return
ResolutionDone(c) ==
    LET results == [x \in DOMAIN c.results \cup {c.cur} |->
                        IF x = c.cur THEN StatusMessage(ResolutionOf(c.cur))
                        ELSE c.results[x]]
    IN  IF c.cur = "small" /\ ThumbnailsOf(MsgOf(c), "big") # <<>>
        THEN [c EXCEPT !.pc = "put_manifest", !.cur = "big", !.content = <<>>,
                       !.results = results]
        ELSE ComposerReturns(c, results)

\* the S3 calls of the invocation, in order (history)
Traced(c, op, obj, key, body, ok) ==
    [c EXCEPT !.trace = Append(c.trace,
        [rec |-> c.idx, suffix |-> c.cur, op |-> op, obj |-> obj, key |-> key,
         body |-> body, ok |-> ok])]

\* lambda_handler up to the loop: Config.validate() raises ValueError, reported as 500
HandlerStart(p) ==
    /\ cmp[p].pc = "start"
    /\ cmp' = [cmp EXCEPT ![p] =
                 IF ConfigValid(cfg) THEN [@ EXCEPT !.pc = "loop"]
                 ELSE [@ EXCEPT !.pc = "returned", !.status = 500]]
    /\ UNCHANGED <<s3, cfg, invq, mqDeleted, playlist0, invalidatorVars, extractorVars>>

\* a handler that reports a batch in which a record failed as failed
HandlerReturnStrict(p) ==
    /\ cmp[p].pc = "loop"
    /\ cmp[p].idx > Len(cmp[p].records)
    /\ cmp' = [cmp EXCEPT ![p].pc = "returned",
                          ![p].status = IF \A i \in DOMAIN cmp[p].outcomes :
                                               cmp[p].outcomes[i] = "ok"
                                        THEN 200 ELSE 500]
    /\ UNCHANGED <<s3, cfg, invq, mqDeleted, playlist0, invalidatorVars, extractorVars>>

\* the loop exhausted: lambda_handler returns 200
HandlerReturn(p) ==
    /\ cmp[p].pc = "loop"
    /\ cmp[p].idx > Len(cmp[p].records)
    /\ cmp' = [cmp EXCEPT ![p].pc = "returned", ![p].status = 200]
    /\ UNCHANGED <<s3, cfg, invq, mqDeleted, playlist0, invalidatorVars, extractorVars>>

\* a record that can be handed to the Composer: json.loads succeeds, the record has
\* a receiptHandle, the body has media_path and hls_url
RecordUsable(rec) ==
    /\ rec.parses
    /\ rec.handle
    /\ HasField(rec.msg, "media_path")
    /\ HasField(rec.msg, "hls_url")

\* the head of one loop iteration, up to the Composer's first S3 call
RecordBegin(p) ==
    /\ cmp[p].pc = "loop"
    /\ cmp[p].idx <= Len(cmp[p].records)
    /\ LET c == [cmp[p] EXCEPT !.attempted = Append(cmp[p].attempted, cmp[p].idx)]
       IN  cmp' = [cmp EXCEPT ![p] =
                     IF RecordUsable(RecordOf(c)) THEN ComposerBegins(c)
                     ELSE SkipRecord(c, "bad_record")]
    /\ UNCHANGED <<s3, cfg, invq, mqDeleted, playlist0, invalidatorVars, extractorVars>>

\* a _create_manifest that goes on to the master playlist although its put failed
PutManifestLenient(p) ==
    /\ cmp[p].pc = "put_manifest"
    /\ LET c == cmp[p]
           msg == MsgOf(c)
           resolution == ResolutionOf(c.cur)
           key == ManifestKey(msg.media_path, resolution)
           body == ManifestContent(msg.media_path, ThumbnailsOf(msg, c.cur), resolution)
       IN  \/ /\ s3' = Put(s3, key, body)
              /\ cmp' = [cmp EXCEPT ![p] =
                           [Traced(c, "put", "manifest", key, body, TRUE)
                              EXCEPT !.pc = "get_playlist"]]
           \/ /\ s3' = s3
              /\ cmp' = [cmp EXCEPT ![p] =
                           [Traced(c, "put", "manifest", key, body, FALSE)
                              EXCEPT !.pc = "get_playlist"]]
    /\ UNCHANGED <<cfg, invq, mqDeleted, playlist0, invalidatorVars, extractorVars>>

\* _create_manifest: build the manifest and put it
PutManifest(p) ==
    /\ cmp[p].pc = "put_manifest"
    /\ LET c == cmp[p]
           msg == MsgOf(c)
           resolution == ResolutionOf(c.cur)
           key == ManifestKey(msg.media_path, resolution)
           body == ManifestContent(msg.media_path, ThumbnailsOf(msg, c.cur), resolution)
       IN  \/ /\ s3' = Put(s3, key, body)
              /\ cmp' = [cmp EXCEPT ![p] =
                           [Traced(c, "put", "manifest", key, body, TRUE)
                              EXCEPT !.pc = "get_playlist"]]
           \/ /\ s3' = s3
              /\ cmp' = [cmp EXCEPT ![p] =
                           ComposerRaises(Traced(c, "put", "manifest", key, body, FALSE))]
    /\ UNCHANGED <<cfg, invq, mqDeleted, playlist0, invalidatorVars, extractorVars>>

\* _update_main_playlist: get the master playlist and test whether it is updated
GetPlaylist(p) ==
    /\ cmp[p].pc = "get_playlist"
    /\ LET c == cmp[p]
           parts == PlaylistKeyParts(MsgOf(c).hls_url)
           filename == ManifestFilename(ResolutionOf(c.cur))
       IN  \/ /\ Len(parts) >= 2
              /\ parts[2] \in DOMAIN s3
              /\ LET content == s3[parts[2]]
                     got == Traced(c, "get", "playlist", parts[2], content, TRUE)
                 IN  cmp' = [cmp EXCEPT ![p] =
                               IF AlreadyUpdated(content, filename)
                               THEN ResolutionDone(got)
                               ELSE [got EXCEPT !.pc = "put_playlist",
                                                !.content = content]]
           \/ /\ Len(parts) >= 2
              /\ cmp' = [cmp EXCEPT ![p] =
                           ComposerRaises(Traced(c, "get", "playlist", parts[2], <<>>, FALSE))]
           \/ /\ Len(parts) < 2
              /\ cmp' = [cmp EXCEPT ![p] = ComposerRaises(c)]
    /\ UNCHANGED <<s3, cfg, invq, mqDeleted, playlist0, invalidatorVars, extractorVars>>

\* _update_main_playlist: splice the image-stream line in and put the playlist back
PutPlaylist(p) ==
    /\ cmp[p].pc = "put_playlist"
    /\ LET c == cmp[p]
           resolution == ResolutionOf(c.cur)
           key == PlaylistKeyParts(MsgOf(c).hls_url)[2]
           line == ImageStreamLine(ManifestFilename(resolution), resolution,
                                   BandwidthOf(c.cur))
           body == UpdatedContent(c.content, line)
       IN  \/ /\ s3' = Put(s3, key, body)
              /\ cmp' = [cmp EXCEPT ![p] = ResolutionDone(Traced(c, "put", "playlist", key, body, TRUE))]
           \/ /\ s3' = s3
              /\ cmp' = [cmp EXCEPT ![p] =
                           ComposerRaises(Traced(c, "put", "playlist", key, body, FALSE))]
    /\ UNCHANGED <<cfg, invq, mqDeleted, playlist0, invalidatorVars, extractorVars>>

\* a handler that goes on to delete the record although sending failed
PublishOrNot(p) ==
    /\ cmp[p].pc = "publish"
    /\ \/ /\ Truthy(cfg.SQS_CACHE_INVALIDATION_QUEUE_URL)
          /\ invq' = Append(invq,
                [media_key |-> MsgOf(cmp[p]).media_key,
                 media_path |-> MsgOf(cmp[p]).media_path,
                 paths_to_invalidate |-> BuildInvalidationPaths(MsgOf(cmp[p]).media_path),
                 from |-> <<p, cmp[p].idx>>])
       \/ invq' = invq
    /\ cmp' = [cmp EXCEPT ![p].pc = "delete"]
    /\ UNCHANGED <<s3, cfg, mqDeleted, playlist0, invalidatorVars, extractorVars>>

\* lambda_handler: build the invalidation message and send it when the queue is set
Publish(p) ==
    /\ cmp[p].pc = "publish"
    /\ LET c == cmp[p]
           msg == MsgOf(c)
       IN  \/ /\ HasField(msg, "media_key")
              /\ Truthy(cfg.SQS_CACHE_INVALIDATION_QUEUE_URL)
              /\ invq' = Append(invq,
                    [media_key |-> msg.media_key, media_path |-> msg.media_path,
                     paths_to_invalidate |-> BuildInvalidationPaths(msg.media_path),
                     from |-> <<p, c.idx>>])
              /\ cmp' = [cmp EXCEPT ![p].pc = "delete"]
           \/ /\ HasField(msg, "media_key")
              /\ Truthy(cfg.SQS_CACHE_INVALIDATION_QUEUE_URL)
              /\ invq' = invq
              /\ cmp' = [cmp EXCEPT ![p] = SkipRecord(c, "send_failed")]
           \/ /\ HasField(msg, "media_key")
              /\ ~Truthy(cfg.SQS_CACHE_INVALIDATION_QUEUE_URL)
              /\ invq' = invq
              /\ cmp' = [cmp EXCEPT ![p].pc = "delete"]
           \/ /\ ~HasField(msg, "media_key")
              /\ invq' = invq
              /\ cmp' = [cmp EXCEPT ![p] = SkipRecord(c, "bad_record")]
    /\ UNCHANGED <<s3, cfg, mqDeleted, playlist0, invalidatorVars, extractorVars>>

\* lambda_handler: delete the record from the manifest queue
DeleteMessage(p) ==
    /\ cmp[p].pc = "delete"
    /\ LET c == cmp[p]
       IN  \/ /\ Truthy(cfg.SQS_MANIFEST_QUEUE_URL)
              /\ mqDeleted' = mqDeleted \cup {<<p, c.idx>>}
              /\ cmp' = [cmp EXCEPT ![p] = SkipRecord(c, "ok")]
           \/ /\ mqDeleted' = mqDeleted
              /\ cmp' = [cmp EXCEPT ![p] = SkipRecord(c, "delete_failed")]
    /\ UNCHANGED <<s3, cfg, invq, playlist0, invalidatorVars, extractorVars>>

-----------------------------------------------------------------------------
(* shared/aws_helpers.py: CloudFrontHelper; src/cache_invalidator/invalidator.py *)

\* the outcomes of one boto3 create_invalidation call: an id assigned by the
\* provider, a ClientError, or another failure (connection, parameter validation)
ProviderIds == {"I1", "I2"}
ProviderOutcomes ==
    [ok : {TRUE}, id : ProviderIds, error : {None}]
        \cup [ok : {FALSE}, id : {None}, error : {"ClientError", "ConnectionError"}]

\* a helper that sends one request per path and returns the last id
InvalidatePathsOneByOne(distribution_id, paths, outcome) ==
    [ret |-> IF paths # <<>> /\ outcome.ok THEN outcome.id ELSE None,
     raised |-> IF paths = <<>> \/ outcome.ok THEN None
                ELSE IF outcome.error = "ClientError" THEN "CDNInvalidationError"
                ELSE outcome.error,
     requests |-> [i \in DOMAIN paths |->
                     [DistributionId |-> distribution_id, Items |-> <<paths[i]>>,
                      Quantity |-> 1, response |-> outcome]]]

\* CloudFrontHelper.invalidate_paths: what it returns or raises, and the requests
\* it made, when the provider answers `outcome`
InvalidatePaths(distribution_id, paths, outcome) ==
    IF paths = <<>>
    THEN [ret |-> None, raised |-> None, requests |-> <<>>]
    ELSE LET request == [DistributionId |-> distribution_id,
                         Items |-> paths, Quantity |-> Len(paths),
                         response |-> outcome]
         IN  IF outcome.ok
             THEN [ret |-> outcome.id, raised |-> None, requests |-> <<request>>]
             ELSE [ret |-> None,
                   raised |-> IF outcome.error = "ClientError"
                              THEN "CDNInvalidationError" ELSE outcome.error,
                   requests |-> <<request>>]

\* an Invalidator that tests the path list before the distribution id
InvalidateCachePathsFirst(paths, distribution_id, config, outcome) ==
    LET dist_id == IF Truthy(distribution_id) THEN distribution_id
                   ELSE config.AWS_CLOUDFRONT_DISTRIBUTION_ID
    IN  IF paths = <<>>
        THEN [ret |-> None, raised |-> None, requests |-> <<>>]
        ELSE IF ~Truthy(dist_id)
        THEN [ret |-> None, raised |-> "CDNInvalidationError", requests |-> <<>>]
        ELSE LET r == InvalidatePaths(dist_id, paths, outcome)
             IN  IF r.raised # None
                 THEN [r EXCEPT !.raised = "CDNInvalidationError"]
                 ELSE r

\* an Invalidator that lets the helper's exceptions through as they are
InvalidateCacheUnwrapped(paths, distribution_id, config, outcome) ==
    LET dist_id == IF Truthy(distribution_id) THEN distribution_id
                   ELSE config.AWS_CLOUDFRONT_DISTRIBUTION_ID
    IN  IF ~Truthy(dist_id)
        THEN [ret |-> None, raised |-> "CDNInvalidationError", requests |-> <<>>]
        ELSE IF paths = <<>>
        THEN [ret |-> None, raised |-> None, requests |-> <<>>]
        ELSE InvalidatePaths(dist_id, paths, outcome)

\* CacheInvalidator.invalidate_cache: every exception of the body is re-raised as
\* CDNInvalidationError
InvalidateCache(paths, distribution_id, config, outcome) ==
    LET dist_id == IF Truthy(distribution_id) THEN distribution_id
                   ELSE config.AWS_CLOUDFRONT_DISTRIBUTION_ID
    IN  IF ~Truthy(dist_id)
        THEN [ret |-> None, raised |-> "CDNInvalidationError", requests |-> <<>>]
        ELSE IF paths = <<>>
        THEN [ret |-> None, raised |-> None, requests |-> <<>>]
        ELSE LET r == InvalidatePaths(dist_id, paths, outcome)
             IN  IF r.raised # None
                 THEN [r EXCEPT !.raised = "CDNInvalidationError"]
                 ELSE r

\* one call as the model records it: the arguments with what came of them
CallRecord(paths, distribution_id, r) ==
    [paths |-> paths, distribution_id |-> distribution_id,
     ret |-> r.ret, raised |-> r.raised, requests |-> r.requests]

-----------------------------------------------------------------------------
(* src/cache_invalidator/handler.py: one Invalidator Lambda invocation *)

IvStart ==
    /\ ivh.pc = "start"
    /\ ivh' = IF ConfigValid(cfg) THEN [ivh EXCEPT !.pc = "loop"]
              ELSE [ivh EXCEPT !.pc = "returned", !.status = 500]
    /\ UNCHANGED <<cfg, cdn, caller, composerVars, extractorVars>>

IvReturn ==
    /\ ivh.pc = "loop"
    /\ ivh.idx > Len(ivh.records)
    /\ ivh' = [ivh EXCEPT !.pc = "returned", !.status = 200]
    /\ UNCHANGED <<cfg, cdn, caller, composerVars, extractorVars>>

\* message_body.get("paths_to_invalidate", [])
PathsOf(msg) ==
    IF HasField(msg, "paths_to_invalidate") THEN msg.paths_to_invalidate ELSE <<>>

\* one loop iteration: parse the record, call invalidate_cache, log; every
\* exception is caught by the per-record except clauses
IvRecord ==
    /\ ivh.pc = "loop"
    /\ ivh.idx <= Len(ivh.records)
    /\ LET rec == ivh.records[ivh.idx]
           h == [ivh EXCEPT !.idx = ivh.idx + 1,
                            !.attempted = Append(ivh.attempted, ivh.idx)]
       IN  \/ /\ ~(rec.parses /\ rec.handle)
              /\ ivh' = [h EXCEPT !.outcomes = Append(h.outcomes, "bad_record")]
              /\ cdn' = cdn
           \/ /\ rec.parses /\ rec.handle
              /\ \E outcome \in ProviderOutcomes :
                    LET r == InvalidateCache(PathsOf(rec.msg),
                                cfg.AWS_CLOUDFRONT_DISTRIBUTION_ID, cfg, outcome)
                    IN  /\ cdn' = cdn \o r.requests
                        /\ ivh' = [h EXCEPT
                              !.outcomes = Append(h.outcomes,
                                  IF r.raised = None THEN "ok" ELSE "invalidator_failed"),
                              !.calls = Append(h.calls,
                                  CallRecord(PathsOf(rec.msg),
                                      cfg.AWS_CLOUDFRONT_DISTRIBUTION_ID, r))]
    /\ UNCHANGED <<cfg, caller, composerVars, extractorVars>>

\* CacheInvalidator.invalidate_cache called directly, with any arguments
DirectCall ==
    /\ caller.pc = "ready"
    /\ \E outcome \in ProviderOutcomes :
          LET r == InvalidateCache(caller.paths, caller.distribution_id, cfg, outcome)
          IN  /\ cdn' = cdn \o r.requests
              /\ caller' = [caller EXCEPT !.pc = "done",
                    !.call = CallRecord(caller.paths, caller.distribution_id, r)]
    /\ UNCHANGED <<cfg, ivh, composerVars, extractorVars>>

-----------------------------------------------------------------------------
(* shared/errors.py and the last two except clauses of the three lambda_handlers *)

\* the subclasses of TrickPlayError, and TrickPlayError itself
TrickPlayKinds ==
    {"TrickPlayError", "S3Error", "FFMpegError", "ManifestGenerationError",
     "CDNInvalidationError", "ConfigurationError"}

\* except TrickPlayError: statusCode 400; except Exception: statusCode 500
StatusOf(kind) == IF kind \in TrickPlayKinds THEN 400 ELSE 500

\* the "error" of the response body: str(e) with 400, a fixed text with 500
ErrorBodyOf(err) ==
    IF err.kind \in TrickPlayKinds THEN err.msg ELSE <<"Internal server error">>

-----------------------------------------------------------------------------
(* src/trick_play_generator/generator.py and handler.py: the Thumbnail Extractor *)

ExtractorProcs == {"e1", "e2"}

THUMBNAIL_FORMAT == "jpg"
THUMBNAIL_SMALL_SUFFIX == "_small"
THUMBNAIL_BIG_SUFFIX == "_big"
THUMBNAILS_FOLDER == "thumbs"

\* the suffix generate_thumbnails passes for a resolution profile
FileSuffixOf(suffix) ==
    IF suffix = "small" THEN THUMBNAIL_SMALL_SUFFIX ELSE THUMBNAIL_BIG_SUFFIX

\* %05d: at least five digits, zero-padded
Pad5(n) ==
    IF n < 10 THEN "0000" \o ToString(n)
    ELSE IF n < 100 THEN "000" \o ToString(n)
    ELSE IF n < 1000 THEN "00" \o ToString(n)
    ELSE IF n < 10000 THEN "0" \o ToString(n)
    ELSE ToString(n)

\* output_pattern: the name of the file the sampler writes for its n-th frame
FrameFile(media_key, suffix, n) ==
    <<media_key, FileSuffixOf(suffix), ".", Pad5(n), ".", THUMBNAIL_FORMAT>>

\* sorted(os.listdir(output_dir)) of a directory holding the first n frame files,
\* kept where filename.endswith(".jpg")
ListedFiles(media_key, suffix, n) ==
    LET all == [i \in 1..n |-> FrameFile(media_key, suffix, i)]
    IN  SelectSeq(all, LAMBDA f :
            Len(f) >= 2 /\ SubSeq(f, Len(f) - 1, Len(f)) = <<".", THUMBNAIL_FORMAT>>)

\* a key that leaves the thumbnails folder out
ThumbnailKeyFlat(media_path, filename) == media_path \o filename

\* s3_key of one file: f"{media_path}{THUMBNAILS_FOLDER}/" + filename
ThumbnailKey(media_path, filename) ==
    media_path \o <<THUMBNAILS_FOLDER, "/">> \o filename

\* the image the sampler wrote for frame file `filename` at `resolution`
FrameImage(resolution, filename) == <<"image", resolution>> \o filename

\* what one run of the frame sampler can come to: the process cannot be started,
\* or it exits with a code, some frame files written and some bytes on stderr
StderrOutputs ==
    { [bytes |-> "", utf8 |-> TRUE],
      [bytes |-> "moov atom not found", utf8 |-> TRUE],
      [bytes |-> "\\xff\\xfe", utf8 |-> FALSE] }
SamplerOutcomes ==
    [started : {FALSE}, exit : {1}, frames : {0}, stderr : {[bytes |-> "", utf8 |-> TRUE]}]
        \cup [started : {TRUE}, exit : {0}, frames : 0..MaxFrames,
              stderr : {[bytes |-> "", utf8 |-> TRUE]}]
        \cup [started : {TRUE}, exit : {1}, frames : 0..MaxFrames, stderr : StderrOutputs]

\* the exception _generate_resolution_thumbnails raises after a run of the sampler
\* that did not exit with 0: stderr.decode("utf-8") raises on bytes that are not
\* UTF-8, and empty stderr is replaced by a fixed text
SamplerError(media_key, outcome) ==
    IF ~outcome.started
    THEN [kind |-> "FileNotFoundError", msg |-> <<"No such file or directory: 'ffmpeg'">>]
    ELSE IF outcome.stderr.bytes # "" /\ ~outcome.stderr.utf8
    THEN [kind |-> "UnicodeDecodeError", msg |-> <<"'utf-8' codec can't decode byte">>]
    ELSE [kind |-> "FFMpegError",
          msg |-> <<"FFmpeg failed for ", media_key, ": ",
                    IF outcome.stderr.bytes # "" THEN outcome.stderr.bytes
                    ELSE "Unknown FFmpeg error">>]

\* detail.get(f), with what stands for a missing value
FieldOr(rec, f, default) == IF f \in DOMAIN rec THEN rec[f] ELSE default

RECURSIVE Flatten(_)
Flatten(ss) == IF Len(ss) = 0 THEN <<>> ELSE Head(ss) \o Flatten(Tail(ss))

\* a scan that goes on to the last path with the playlist extension
ExtractHlsUrlLast(detail) ==
    LET groups == FieldOr(detail, "outputGroupDetails", <<>>)
        outputs == Flatten([g \in DOMAIN groups |->
                        FieldOr(groups[g], "outputDetails", <<>>)])
        paths == Flatten([o \in DOMAIN outputs |->
                        FieldOr(outputs[o], "outputFilePaths", <<>>)])
        found == SelectSeq(paths, LAMBDA path : Contains(path, <<"m3u8">>))
    IN  IF Len(found) > 0 THEN found[Len(found)] ELSE <<>>

\* _extract_hls_url: the first path, in the nested order of output groups, outputs
\* and paths, that contains "m3u8"; <<>> stands for None
ExtractHlsUrl(detail) ==
    LET groups == FieldOr(detail, "outputGroupDetails", <<>>)
        outputs == Flatten([g \in DOMAIN groups |->
                        FieldOr(groups[g], "outputDetails", <<>>)])
        paths == Flatten([o \in DOMAIN outputs |->
                        FieldOr(outputs[o], "outputFilePaths", <<>>)])
        found == SelectSeq(paths, LAMBDA path : Contains(path, <<"m3u8">>))
    IN  IF Len(found) > 0 THEN found[1] ELSE <<>>

\* the last two except clauses of lambda_handler: the response for an exception
HandlerCatches(e, err, cause) ==
    [e EXCEPT !.pc = "returned", !.status = StatusOf(err.kind), !.raised = err,
              !.body = ErrorBodyOf(err), !.cause = cause, !.files = <<>>]

\* the except clause of generate_thumbnails: every exception becomes FFMpegError
GenerateRaises(e, inner, cause) ==
    HandlerCatches(e,
        [kind |-> "FFMpegError",
         msg |-> <<"Failed to generate thumbnails for ", e.media_key, ": ">> \o inner.msg],
        cause)

\* _generate_resolution_thumbnails returned: the big profile after the small one,
\* then back in lambda_handler
ExtResolutionDone(e) ==
    IF e.cur = "small" THEN [e EXCEPT !.pc = "sample", !.cur = "big", !.files = <<>>]
    ELSE [e EXCEPT !.pc = "publish", !.cur = None, !.files = <<>>]

\* the S3 calls of the invocation, in order (history)
ExtTraced(e, op, obj, key, body, ok) ==
    [e EXCEPT !.trace = Append(e.trace,
        [suffix |-> e.cur, op |-> op, obj |-> obj, key |-> key, body |-> body,
         ok |-> ok])]

\* lambda_handler up to generate_thumbnails: validate the configuration, read the
\* event; a ValueError is caught by except Exception
ExtStart(p) ==
    /\ ext[p].pc = "start"
    /\ LET e == ext[p]
           detail == FieldOr(e.event, "detail", [x \in {} |-> None])
           media_key == FieldOr(detail, "mediaKey", None)
           media_path == FieldOr(detail, "mediaKeyId", <<>>)
           hls_url == ExtractHlsUrl(detail)
       IN  ext' = [ext EXCEPT ![p] =
                IF ~ConfigValid(cfg)
                THEN HandlerCatches(e,
                        [kind |-> "ValueError",
                         msg |-> <<"Missing required environment variables">>],
                        "configuration")
                ELSE IF ~Truthy(media_key) \/ media_path = <<>>
                THEN HandlerCatches(e,
                        [kind |-> "ValueError",
                         msg |-> <<"Missing required fields: mediaKey, mediaKeyId">>],
                        "missing_field")
                ELSE IF hls_url = <<>>
                THEN HandlerCatches(e,
                        [kind |-> "ValueError",
                         msg |-> <<"No HLS manifest found in event">>],
                        "no_playlist_path")
                ELSE [e EXCEPT !.pc = "download", !.media_key = media_key,
                               !.media_path = media_path, !.hls_url = hls_url]]
    /\ UNCHANGED <<cfg, mq, composerVars, invalidatorVars>>

\* generate_thumbnails: enter the temporary directory, which is created before the
\* try block so that its failure is not wrapped, and download the master playlist
\* into it
ExtDownload(p) ==
    /\ ext[p].pc = "download"
    /\ LET e == ext[p]
           parts == PlaylistKeyParts(e.hls_url)
       IN  \/ ext' = [ext EXCEPT ![p] =
                    HandlerCatches(e,
                        [kind |-> "OSError", msg |-> <<"No space left on device">>],
                        "tempdir")]
           \/ /\ Len(parts) >= 2
              /\ parts[2] \in DOMAIN s3
              /\ ext' = [ext EXCEPT ![p] =
                    [ExtTraced(e, "get", "playlist", parts[2], s3[parts[2]], TRUE)
                        EXCEPT !.pc = "sample", !.cur = "small"]]
           \/ /\ Len(parts) >= 2
              /\ ext' = [ext EXCEPT ![p] =
                    GenerateRaises(ExtTraced(e, "get", "playlist", parts[2], <<>>, FALSE),
                        [kind |-> "S3Error", msg |-> <<"Error downloading">>], "storage")]
           \/ /\ Len(parts) < 2
              /\ ext' = [ext EXCEPT ![p] =
                    GenerateRaises(e,
                        [kind |-> "IndexError", msg |-> <<"list index out of range">>],
                        "playlist_url")]
    /\ UNCHANGED <<cfg, mq, composerVars, invalidatorVars>>

\* _generate_resolution_thumbnails: run the frame sampler for the current profile
\* and list what it wrote
ExtSample(p) ==
    /\ ext[p].pc = "sample"
    /\ \E outcome \in SamplerOutcomes :
          LET e == [ext[p] EXCEPT !.samples = Append(ext[p].samples,
                        [suffix |-> ext[p].cur, size |-> ResolutionOf(ext[p].cur),
                         input |-> ext[p].hls_url, outcome |-> outcome])]
              files == ListedFiles(e.media_key, e.cur, outcome.frames)
          IN  ext' = [ext EXCEPT ![p] =
                IF ~outcome.started \/ outcome.exit # 0
                THEN GenerateRaises(e, SamplerError(e.media_key, outcome), "sampler")
                ELSE IF files = <<>> THEN ExtResolutionDone(e)
                ELSE [e EXCEPT !.pc = "upload", !.files = files]]
    /\ UNCHANGED <<cfg, mq, composerVars, invalidatorVars>>

\* _generate_resolution_thumbnails: upload the next listed file
ExtUpload(p) ==
    /\ ext[p].pc = "upload"
    /\ LET e == ext[p]
           filename == Head(e.files)
           key == ThumbnailKey(e.media_path, filename)
           body == FrameImage(ResolutionOf(e.cur), filename)
       IN  \/ /\ s3' = Put(s3, key, body)
              /\ LET up == [ExtTraced(e, "put", "thumbnail", key, body, TRUE) EXCEPT
                               !.keys[e.cur] = Append(e.keys[e.cur], key),
                               !.files = Tail(e.files)]
                 IN  ext' = [ext EXCEPT ![p] =
                        IF up.files = <<>> THEN ExtResolutionDone(up) ELSE up]
           \/ /\ s3' = s3
              /\ ext' = [ext EXCEPT ![p] =
                    GenerateRaises(ExtTraced(e, "put", "thumbnail", key, body, FALSE),
                        [kind |-> "S3Error", msg |-> <<"Error uploading">>], "storage")]
    /\ UNCHANGED <<cfg, mq, cmp, invq, mqDeleted, playlist0, invalidatorVars>>

\* a message that names the job by a key of its own making
ManifestMessageRekeyed(e, p) ==
    [media_key |-> "job-" \o e.media_key, media_path |-> e.media_path,
     hls_url |-> e.hls_url,
     small_thumbnails |-> e.keys["small"], big_thumbnails |-> e.keys["big"],
     from |-> p]

\* the message lambda_handler builds for the manifest queue
ManifestMessage(e, p) ==
    [media_key |-> e.media_key, media_path |-> e.media_path, hls_url |-> e.hls_url,
     small_thumbnails |-> e.keys["small"], big_thumbnails |-> e.keys["big"],
     from |-> p]

\* a handler that returns 200 without sending anything
ExtPublishSilent(p) ==
    /\ ext[p].pc = "publish"
    /\ ext' = [ext EXCEPT ![p].pc = "returned", ![p].status = 200]
    /\ UNCHANGED <<cfg, mq, composerVars, invalidatorVars>>

\* lambda_handler after generate_thumbnails: send the message when the queue is
\* set, then return 200
ExtPublish(p) ==
    /\ ext[p].pc = "publish"
    /\ LET e == ext[p]
           done == [e EXCEPT !.pc = "returned", !.status = 200]
       IN  \/ /\ Truthy(cfg.SQS_MANIFEST_QUEUE_URL)
              /\ mq' = Append(mq, ManifestMessage(e, p))
              /\ ext' = [ext EXCEPT ![p] = done]
           \/ /\ Truthy(cfg.SQS_MANIFEST_QUEUE_URL)
              /\ mq' = mq
              /\ ext' = [ext EXCEPT ![p] =
                    HandlerCatches(e,
                        [kind |-> "S3Error", msg |-> <<"Error sending SQS message">>],
                        "queue")]
           \/ /\ Truthy(cfg.SQS_MANIFEST_QUEUE_URL)
              /\ mq' = mq
              /\ ext' = [ext EXCEPT ![p] =
                    HandlerCatches(e,
                        [kind |-> "EndpointConnectionError",
                         msg |-> <<"Could not connect to the endpoint URL">>],
                        "queue")]
           \/ /\ ~Truthy(cfg.SQS_MANIFEST_QUEUE_URL)
              /\ mq' = mq
              /\ ext' = [ext EXCEPT ![p] = done]
    /\ UNCHANGED <<cfg, composerVars, invalidatorVars>>

\* an Extractor invocation that is not part of the run, and one about to start
ExtOff ==
    [pc |-> "off", event |-> [x \in {} |-> None], media_key |-> None,
     media_path |-> <<>>, hls_url |-> <<>>, cur |-> None, files |-> <<>>,
     keys |-> [s \in Suffixes |-> <<>>], trace |-> <<>>, samples |-> <<>>,
     status |-> 0, raised |-> [kind |-> None, msg |-> <<>>], body |-> <<>>,
     cause |-> None]
ExtWith(event) == [ExtOff EXCEPT !.pc = "start", !.event = event]

ExtractorIdle == ext = [p \in ExtractorProcs |-> ExtOff] /\ mq = <<>>

NextExtractor ==
    \E p \in ExtractorProcs :
        \/ ExtStart(p)
        \/ ExtDownload(p)
        \/ ExtSample(p)
        \/ ExtUpload(p)
        \/ ExtPublish(p)

-----------------------------------------------------------------------------
(* The inputs the runs are drawn from *)

BoundedSeq(S, n) == UNION {[1..k -> S] : k \in 0..n}

StdConfig ==
    [AWS_S3_BUCKET |-> "bucket",
     AWS_CLOUDFRONT_DISTRIBUTION_ID |-> "EDIST",
     SQS_MANIFEST_QUEUE_URL |-> "manifest-queue",
     SQS_CACHE_INVALIDATION_QUEUE_URL |-> "invalidation-queue"]

\* a MediaJob: the media path and the URL of its master playlist
JobPlain ==
    [media_key |-> "v1",
     media_path |-> <<"content", "/", "v1", "/">>,
     hls_url |-> <<"s3://", "bucket", "/", "content", "/", "v1", "/", "play.m3u8">>]
JobHls ==
    [media_key |-> "v1",
     media_path |-> <<"content", "/", "v1", "/", "hls", "/">>,
     hls_url |-> <<"s3://", "bucket", "/", "content", "/", "v1", "/", "hls", "/",
                   "play.m3u8">>]
JobMyHls ==
    [media_key |-> "v2",
     media_path |-> <<"content", "/", "my", "hls", "/">>,
     hls_url |-> <<"s3://", "bucket", "/", "content", "/", "my", "hls", "/",
                   "play.m3u8">>]
JobNoSlash ==
    [media_key |-> "v3",
     media_path |-> <<"content", "/", "v3", "/">>,
     hls_url |-> <<"s3://", "play.m3u8">>]
Jobs == {JobPlain, JobHls, JobMyHls}

ThumbKeys ==
    { <<"content", "/", "v1", "/", "thumbs", "/", "v1_small.00001.jpg">>,
      <<"v1_small.00002.jpg">> }
KeyLists == BoundedSeq(ThumbKeys, MaxThumbs)

SmallSet ==
    << <<"content", "/", "v1", "/", "thumbs", "/", "v1_small.00001.jpg">>,
       <<"content", "/", "v1", "/", "thumbs", "/", "v1_small.00002.jpg">> >>
BigSet ==
    << <<"content", "/", "v1", "/", "thumbs", "/", "v1_big.00001.jpg">> >>

LineOf(suffix) ==
    ImageStreamLine(ManifestFilename(ResolutionOf(suffix)), ResolutionOf(suffix),
                    BandwidthOf(suffix))

PlHeader == <<"#EXTM3U", "\n", "#EXT-X-VERSION:3", "\n">>
PlVariant(name) ==
    <<"#EXT-X-STREAM-INF", ":BANDWIDTH=800000,RESOLUTION=1280x720", "\n", name, "\n">>
PlEnd == <<"#EXT-X-ENDLIST">>

Playlists ==
    { PlHeader \o PlVariant("v_720.m3u8") \o PlVariant("v_360.m3u8"),
      PlHeader \o PlVariant("v_720.m3u8") \o PlEnd,
      PlHeader \o PlEnd,
      PlHeader \o PlEnd \o <<"\n">> \o PlEnd,
      PlHeader,
      PlHeader \o LineOf("small") \o PlVariant("v_720.m3u8"),
      PlHeader \o LineOf("big") \o LineOf("small") \o PlVariant("v_720.m3u8"),
      PlHeader \o <<"# see ", ManifestFilename(ResolutionOf("big")), "\n">>
            \o PlVariant("v_720.m3u8") }

\* the key the master playlist of a job is stored under
PlaylistKey(job) == PlaylistKeyParts(job.hls_url)[2]

\* an SQS record carrying the Extractor's message for a job
ValidRecord(job, small, big) ==
    [parses |-> TRUE, handle |-> TRUE,
     msg |-> [media_key |-> job.media_key, media_path |-> job.media_path,
              hls_url |-> job.hls_url,
              small_thumbnails |-> small, big_thumbnails |-> big]]

\* records lambda_handler cannot process, and ones it can process only in part
BadRecords ==
    { [parses |-> FALSE, handle |-> TRUE, msg |-> NoResults],
      [parses |-> TRUE, handle |-> FALSE,
       msg |-> ValidRecord(JobPlain, SmallSet, BigSet).msg],
      [parses |-> TRUE, handle |-> TRUE,
       msg |-> [media_key |-> "v1", hls_url |-> JobPlain.hls_url,
                small_thumbnails |-> SmallSet, big_thumbnails |-> BigSet]],
      [parses |-> TRUE, handle |-> TRUE,
       msg |-> [media_path |-> JobPlain.media_path, hls_url |-> JobPlain.hls_url,
                small_thumbnails |-> SmallSet]],
      ValidRecord(JobNoSlash, SmallSet, <<>>) }

BatchRecords ==
    BadRecords \cup {ValidRecord(JobPlain, SmallSet, BigSet),
                     ValidRecord(JobPlain, <<>>, BigSet)}

ComposerConfigs ==
    { StdConfig,
      [StdConfig EXCEPT !.AWS_CLOUDFRONT_DISTRIBUTION_ID = None],
      [StdConfig EXCEPT !.SQS_CACHE_INVALIDATION_QUEUE_URL = None],
      [StdConfig EXCEPT !.SQS_MANIFEST_QUEUE_URL = None] }

ComposerOff ==
    [pc |-> "off", records |-> <<>>, idx |-> 1, cur |-> None, content |-> <<>>,
     results |-> NoResults, trace |-> <<>>, attempted |-> <<>>, outcomes |-> <<>>,
     ret |-> <<>>, status |-> 0]
ComposerWith(records) == [ComposerOff EXCEPT !.pc = "start", !.records = records]

CallerOff ==
    [pc |-> "off", paths |-> <<>>, distribution_id |-> None,
     call |-> CallRecord(<<>>, None, [ret |-> None, raised |-> None, requests |-> <<>>])]
IvOff ==
    [pc |-> "off", records |-> <<>>, idx |-> 1, attempted |-> <<>>, outcomes |-> <<>>,
     calls |-> <<>>, status |-> 0]

InvalidatorIdle == cdn = <<>> /\ ivh = IvOff /\ caller = CallerOff

\* one invocation, one record, any job, any two key lists, any master playlist
InitSingle ==
    /\ cfg = StdConfig
    /\ \E job \in Jobs, small \in KeyLists, big \in KeyLists :
          /\ cmp = [p \in ComposerProcs |->
                      IF p = "c1" THEN ComposerWith(<<ValidRecord(job, small, big)>>)
                      ELSE ComposerOff]
          /\ \/ \E pl \in Playlists :
                   s3 = [k \in {PlaylistKey(job)} |-> pl] /\ playlist0 = pl
             \/ s3 = [k \in {} |-> <<>>] /\ playlist0 = <<>>

\* two concurrent invocations for the same asset, each with or without each list
InitRace ==
    /\ cfg = StdConfig
    /\ \E s1 \in {<<>>, SmallSet}, b1 \in {<<>>, BigSet},
          s2 \in {<<>>, SmallSet}, b2 \in {<<>>, BigSet} :
          cmp = [p \in ComposerProcs |->
                   IF p = "c1" THEN ComposerWith(<<ValidRecord(JobPlain, s1, b1)>>)
                   ELSE ComposerWith(<<ValidRecord(JobPlain, s2, b2)>>)]
    /\ \E pl \in Playlists :
          s3 = [k \in {PlaylistKey(JobPlain)} |-> pl] /\ playlist0 = pl

\* one invocation with a batch of records, good and bad, under any configuration
InitBatch ==
    /\ cfg \in ComposerConfigs
    /\ \E records \in BoundedSeq(BatchRecords, MaxBatch) :
          cmp = [p \in ComposerProcs |->
                   IF p = "c1" THEN ComposerWith(records) ELSE ComposerOff]
    /\ playlist0 = PlHeader \o PlVariant("v_720.m3u8")
    /\ s3 = [k \in {PlaylistKey(JobPlain)} |-> playlist0]

InitComposer ==
    /\ invq = <<>>
    /\ mqDeleted = {}
    /\ InvalidatorIdle
    /\ ExtractorIdle
    /\ (InitSingle \/ InitRace \/ InitBatch)

NextComposer ==
    \E p \in ComposerProcs :
        \/ HandlerStart(p)
        \/ RecordBegin(p)
        \/ PutManifest(p)
        \/ GetPlaylist(p)
        \/ PutPlaylist(p)
        \/ Publish(p)
        \/ DeleteMessage(p)
        \/ HandlerReturn(p)

-----------------------------------------------------------------------------
(* The Invalidator: its handler, CacheInvalidator and CloudFront *)

InvalidationPaths ==
    { <<"/", "content", "/", "v1", "/", "play.m3u8">>,
      <<"/", "content", "/", "v1", "/", "thumbs/*">> }
PathLists == BoundedSeq(InvalidationPaths, MaxPaths)

DistributionSettings == {None, "", "EDIST"}
DistributionArgs == {None, "", "EARG"}

IvRecords ==
    { [parses |-> FALSE, handle |-> TRUE, msg |-> NoResults],
      [parses |-> TRUE, handle |-> FALSE,
       msg |-> [media_key |-> "v1",
                paths_to_invalidate |-> BuildInvalidationPaths(JobPlain.media_path)]],
      [parses |-> TRUE, handle |-> TRUE, msg |-> [media_key |-> "v1"]],
      [parses |-> TRUE, handle |-> TRUE,
       msg |-> [media_key |-> "v1", paths_to_invalidate |-> <<>>]],
      [parses |-> TRUE, handle |-> TRUE,
       msg |-> [media_key |-> "v1",
                paths_to_invalidate |-> BuildInvalidationPaths(JobPlain.media_path)]],
      [parses |-> TRUE, handle |-> TRUE,
       msg |-> [media_key |-> "v2",
                paths_to_invalidate |-> BuildInvalidationPaths(JobMyHls.media_path)]] }

ComposerIdle ==
    /\ s3 = [k \in {} |-> <<>>]
    /\ playlist0 = <<>>
    /\ cmp = [p \in ComposerProcs |-> ComposerOff]
    /\ invq = <<>>
    /\ mqDeleted = {}

\* one handler invocation with a batch of records
InitIvBatch ==
    /\ caller = CallerOff
    /\ \E records \in BoundedSeq(IvRecords, MaxBatch) :
          ivh = [IvOff EXCEPT !.pc = "start", !.records = records]

\* one direct call of invalidate_cache with any arguments
InitIvCall ==
    /\ ivh = IvOff
    /\ \E paths \in PathLists, d \in DistributionArgs :
          caller = [CallerOff EXCEPT !.pc = "ready", !.paths = paths,
                                     !.distribution_id = d]

InitInvalidator ==
    /\ ComposerIdle
    /\ ExtractorIdle
    /\ cdn = <<>>
    /\ \E d \in DistributionSettings :
          cfg = [StdConfig EXCEPT !.AWS_CLOUDFRONT_DISTRIBUTION_ID = d]
    /\ (InitIvBatch \/ InitIvCall)

NextInvalidator ==
    \/ IvStart
    \/ IvRecord
    \/ IvReturn
    \/ DirectCall

\* the Invalidator alone
SpecInvalidator == InitInvalidator /\ [][NextInvalidator]_vars

-----------------------------------------------------------------------------
(* The Composer and the Invalidator, a run being about one of the two *)

Init == InitComposer \/ InitInvalidator

Next == NextComposer \/ NextInvalidator

Spec == Init /\ [][Next]_vars

-----------------------------------------------------------------------------
(* The Extractor and the Composer on the same bucket *)

\* a MediaJob whose master playlist is the object `playlist` of the bucket
PipelineJob(media_key, media_path, playlist) ==
    [media_key |-> media_key, media_path |-> media_path,
     hls_url |-> <<"s3://", "bucket", "/">> \o playlist]

JobA ==
    PipelineJob("a1", <<"content", "/", "a1", "/">>,
                <<"content", "/", "a1", "/", "play.", "m3u8">>)
JobMaster ==
    PipelineJob("b2", <<"content", "/", "b2", "/">>,
                <<"content", "/", "b2", "/", "master.", "m3u8">>)
JobNested ==
    PipelineJob("a1", <<"content", "/", "a1", "/", "hls", "/">>,
                <<"content", "/", "a1", "/", "hls", "/", "play.", "m3u8">>)
JobShared ==
    PipelineJob("c3", <<"content", "/", "c3", "/">>,
                <<"content", "/", "a1", "/", "play.", "m3u8">>)

\* the keys the Extractor returns for n frames of a resolution of a job
ThumbsOf(job, suffix, n) ==
    [i \in 1..n |-> ThumbnailKey(job.media_path, FrameFile(job.media_key, suffix, i))]

\* the transcode-completion event of a job: one output group with a video file
\* and the master playlist
TriggerEvent(job) ==
    [detail |->
        [mediaKey |-> job.media_key, mediaKeyId |-> job.media_path,
         outputGroupDetails |->
            << [outputDetails |->
                  << [outputFilePaths |->
                        << <<"s3://", "bucket", "/">> \o job.media_path \o <<"video.", "mp4">>,
                           job.hls_url >>] >>] >>]]

\* events lambda_handler rejects, and one whose playlist URL names no key
BadEvents ==
    { [x \in {} |-> None],
      [detail |-> [mediaKeyId |-> JobA.media_path,
                   outputGroupDetails |-> TriggerEvent(JobA).detail.outputGroupDetails]],
      [detail |-> [mediaKey |-> "", mediaKeyId |-> JobA.media_path,
                   outputGroupDetails |-> TriggerEvent(JobA).detail.outputGroupDetails]],
      [detail |-> [mediaKey |-> "a1",
                   outputGroupDetails |-> TriggerEvent(JobA).detail.outputGroupDetails]],
      [detail |-> [mediaKey |-> "a1", mediaKeyId |-> JobA.media_path]],
      [detail |-> [mediaKey |-> "a1", mediaKeyId |-> JobA.media_path,
                   outputGroupDetails |->
                      << [outputDetails |->
                            << [outputFilePaths |->
                                  << <<"s3://", "bucket", "/", "content", "/", "a1", "/",
                                       "video.", "mp4">> >>] >>] >>]],
      [detail |-> [mediaKey |-> "a1", mediaKeyId |-> JobA.media_path,
                   outputGroupDetails |->
                      << [outputDetails |->
                            << [outputFilePaths |-> << <<"s3://", "play.", "m3u8">> >>] >>] >>]] }

Events == BadEvents \cup {TriggerEvent(JobA), TriggerEvent(JobMaster), TriggerEvent(JobNested)}

ExtractorConfigs ==
    { StdConfig,
      [StdConfig EXCEPT !.AWS_S3_BUCKET = None],
      [StdConfig EXCEPT !.SQS_MANIFEST_QUEUE_URL = None],
      [StdConfig EXCEPT !.SQS_MANIFEST_QUEUE_URL = ""] }

\* the bucket holding the same master playlist for each of the jobs
StoreOf(jobs, content) == [k \in {PlaylistKey(j) : j \in jobs} |-> content]

ComposerQuiet ==
    /\ cmp = [p \in ComposerProcs |-> ComposerOff]
    /\ invq = <<>>
    /\ mqDeleted = {}

\* one Extractor invocation on any event under any configuration
InitExtract ==
    /\ cfg \in ExtractorConfigs
    /\ \E event \in Events :
          ext = [p \in ExtractorProcs |-> IF p = "e1" THEN ExtWith(event) ELSE ExtOff]
    /\ mq = <<>>
    /\ ComposerQuiet
    /\ playlist0 = PlHeader \o PlVariant("v_720.m3u8")
    /\ s3 = StoreOf({JobA, JobMaster, JobNested}, playlist0)

\* one Composer invocation given the same message once or several times in a row
InitCompose ==
    /\ cfg \in {StdConfig, [StdConfig EXCEPT !.SQS_CACHE_INVALIDATION_QUEUE_URL = None]}
    /\ ExtractorIdle
    /\ invq = <<>>
    /\ mqDeleted = {}
    /\ \E job \in {JobA, JobMaster, JobNested}, ns \in {0, 2}, nb \in {0, 1},
          k \in 1..MaxBatch :
          /\ cmp = [p \in ComposerProcs |->
                      IF p = "c1"
                      THEN ComposerWith([i \in 1..k |->
                              ValidRecord(job, ThumbsOf(job, "small", ns),
                                          ThumbsOf(job, "big", nb))])
                      ELSE ComposerOff]
          /\ \E pl \in Playlists : s3 = StoreOf({job}, pl) /\ playlist0 = pl

\* two invocations for two different jobs at the same time: an Extractor and a
\* Composer, two Composers, or two Extractors
InitCross ==
    /\ InvalidatorIdle
    /\ cfg = StdConfig
    /\ invq = <<>>
    /\ mqDeleted = {}
    /\ mq = <<>>
    /\ playlist0 = PlHeader \o PlVariant("v_720.m3u8")
    /\ s3 = StoreOf({JobA, JobMaster, JobNested}, playlist0)
    /\ \E j1 \in {JobA, JobNested, JobShared}, j2 \in {JobA, JobMaster, JobNested} :
          /\ j1.media_path # j2.media_path
          /\ LET r1 == ValidRecord(j1, ThumbsOf(j1, "small", 1), <<>>)
                 r2 == ValidRecord(j2, ThumbsOf(j2, "small", 1), ThumbsOf(j2, "big", 1))
             IN  \/ /\ cmp = [p \in ComposerProcs |->
                                IF p = "c1" THEN ComposerWith(<<r2>>) ELSE ComposerOff]
                    /\ ext = [p \in ExtractorProcs |->
                                IF p = "e1" THEN ExtWith(TriggerEvent(j1)) ELSE ExtOff]
                 \/ /\ cmp = [p \in ComposerProcs |->
                                IF p = "c1" THEN ComposerWith(<<r1>>)
                                ELSE ComposerWith(<<r2>>)]
                    /\ ext = [p \in ExtractorProcs |-> ExtOff]
                 \/ /\ cmp = [p \in ComposerProcs |-> ComposerOff]
                    /\ ext = [p \in ExtractorProcs |->
                                IF p = "e1" THEN ExtWith(TriggerEvent(j1))
                                ELSE ExtWith(TriggerEvent(j2))]

InitPipeline ==
    /\ InvalidatorIdle
    /\ (InitExtract \/ InitCompose)

NextPipeline == NextExtractor \/ NextComposer

\* one invocation of the Extractor or of the Composer
SpecPipeline == InitPipeline /\ [][NextPipeline]_vars

\* two invocations for different jobs
SpecCross == InitCross /\ [][NextPipeline]_vars

-----------------------------------------------------------------------------
(* The three stages in a row: each queue delivers what the stage before it      *)
(* published, and delivers it again while it has not been deleted. The trigger  *)
(* is delivered once: lambda_handler answers every outcome with a response, so   *)
(* the invocation never fails and nothing asks for the event again.              *)

\* the SQS record carrying the k-th message of the manifest queue
ManifestRecord(k) ==
    [parses |-> TRUE, handle |-> TRUE, id |-> k,
     msg |-> [f \in DOMAIN mq[k] \ {"from"} |-> mq[k][f]]]

\* the SQS record carrying the k-th message of the invalidation queue
InvalidationRecord(k) ==
    [parses |-> TRUE, handle |-> TRUE, id |-> k,
     msg |-> [f \in DOMAIN invq[k] \ {"from"} |-> invq[k][f]]]

\* the Composer deleted the k-th message of the manifest queue
Acked(k) ==
    \E p \in ComposerProcs : \E i \in DOMAIN cmp[p].records :
        cmp[p].records[i].id = k /\ <<p, i>> \in mqDeleted

\* the deliveries the two queues have made so far
DeliveriesMade == Len(cmp["c1"].records) + Len(ivh.records)

\* the manifest queue invokes the Composer with a message that is not deleted;
\* the records of the successive invocations are kept one after the other
DeliverManifest ==
    /\ cmp["c1"].pc \in {"off", "returned"}
    /\ DeliveriesMade < MaxDeliveries
    /\ \E k \in DOMAIN mq :
          /\ ~Acked(k)
          /\ cmp' = [cmp EXCEPT !["c1"] =
                        [@ EXCEPT !.pc = "start", !.status = 0,
                                  !.records = Append(@, ManifestRecord(k))]]
    /\ UNCHANGED <<s3, cfg, invq, mqDeleted, playlist0, invalidatorVars, extractorVars>>

\* the invalidation queue invokes the Invalidator with one of its messages; the
\* Invalidator handler deletes nothing, so every message stays deliverable
DeliverInvalidation ==
    /\ ivh.pc \in {"off", "returned"}
    /\ DeliveriesMade < MaxDeliveries
    /\ \E k \in DOMAIN invq :
          ivh' = [ivh EXCEPT !.pc = "start", !.status = 0,
                             !.records = Append(@, InvalidationRecord(k))]
    /\ UNCHANGED <<cfg, cdn, caller, composerVars, extractorVars>>

\* one transcode-completion event for a job whose master playlist is in the bucket
InitFlow ==
    /\ cfg = StdConfig
    /\ \E job \in {JobA, JobMaster} :
          ext = [p \in ExtractorProcs |->
                    IF p = "e1" THEN ExtWith(TriggerEvent(job)) ELSE ExtOff]
    /\ mq = <<>>
    /\ ComposerQuiet
    /\ InvalidatorIdle
    /\ playlist0 = PlHeader \o PlVariant("v_720.m3u8")
    /\ s3 = StoreOf({JobA, JobMaster}, playlist0)

NextFlow ==
    \/ NextExtractor
    \/ DeliverManifest
    \/ NextComposer
    \/ DeliverInvalidation
    \/ IvStart
    \/ IvRecord
    \/ IvReturn

\* the pipeline under fair scheduling of its stages and queues
SpecFlow == InitFlow /\ [][NextFlow]_vars /\ WF_vars(NextFlow)

-----------------------------------------------------------------------------
(* Events with the playlist path anywhere among the output file paths *)

\* the places of a grid of output groups, outputs and output file paths
GridPlaces == (1..MaxOutputs) \X (1..MaxOutputs) \X (1..MaxOutputs)

\* a transcode-completion event for content/a1/ whose output file paths are video
\* files, except that the place at holds the playlist of a1 and the place bt the
\* playlist of b2; a place outside the grid holds nothing
GridEvent(at, bt) ==
    [detail |->
        [mediaKey |-> JobA.media_key, mediaKeyId |-> JobA.media_path,
         outputGroupDetails |->
            [g \in 1..MaxOutputs |->
                [outputDetails |->
                    [o \in 1..MaxOutputs |->
                        [outputFilePaths |->
                            [i \in 1..MaxOutputs |->
                                IF <<g, o, i>> = at THEN JobA.hls_url
                                ELSE IF <<g, o, i>> = bt THEN JobMaster.hls_url
                                ELSE <<"s3://", "bucket", "/">> \o JobA.media_path
                                        \o <<"video.", "mp4">>]]]]]]]

NoPlace == <<0, 0, 0>>

GridEvents ==
    { GridEvent(at, bt) : at \in GridPlaces \cup {NoPlace}, bt \in GridPlaces \cup {NoPlace} }

\* one Extractor invocation on an event of the grid or on one of the other events
InitScan ==
    /\ cfg = StdConfig
    /\ \E event \in GridEvents \cup Events :
          ext = [p \in ExtractorProcs |-> IF p = "e1" THEN ExtWith(event) ELSE ExtOff]
    /\ mq = <<>>
    /\ ComposerQuiet
    /\ InvalidatorIdle
    /\ playlist0 = PlHeader \o PlVariant("v_720.m3u8")
    /\ s3 = StoreOf({JobA, JobMaster, JobNested}, playlist0)

\* the Extractor on its own
SpecScan == InitScan /\ [][NextExtractor]_vars

-----------------------------------------------------------------------------
(* Composer invocations for one asset, one after the other and at the same time *)

\* a master playlist with an insertion point and one without
RacePlaylists ==
    { PlHeader \o PlVariant("v_720.m3u8") \o PlEnd,
      PlHeader }

\* a message for the asset with both lists or with the big list alone
RaceRecords ==
    { ValidRecord(JobA, ThumbsOf(JobA, "small", ns), ThumbsOf(JobA, "big", 1)) :
        ns \in {0, 1} }

\* the message with both lists, as the Extractor sends it
FullRecord == ValidRecord(JobA, ThumbsOf(JobA, "small", 1), ThumbsOf(JobA, "big", 1))

\* c1 is given the Extractor's message once or several times in a row while c2 is
\* given a message for the same asset once
InitRepeat ==
    /\ cfg = StdConfig
    /\ invq = <<>>
    /\ mqDeleted = {}
    /\ InvalidatorIdle
    /\ ExtractorIdle
    /\ \E pl \in RacePlaylists : s3 = StoreOf({JobA}, pl) /\ playlist0 = pl
    /\ \E r2 \in RaceRecords, k \in 1..MaxBatch :
          cmp = [p \in ComposerProcs |->
                    IF p = "c1" THEN ComposerWith([i \in 1..k |-> FullRecord])
                    ELSE ComposerWith(<<r2>>)]

\* the Composer racing with itself
SpecRace == InitRepeat /\ [][NextComposer]_vars

-----------------------------------------------------------------------------
(* Properties *)

Range(s) == {s[i] : i \in DOMAIN s}

\* the entries of the trace of p that satisfy Test
Ops(p, Test(_)) == {i \in DOMAIN cmp[p].trace : Test(cmp[p].trace[i])}

IsManifestPut(t) == t.op = "put" /\ t.obj = "manifest"
IsPlaylistGet(t) == t.op = "get" /\ t.obj = "playlist" /\ t.ok
IsPlaylistPut(t) == t.op = "put" /\ t.obj = "playlist"

\* the thumbnail list the trace entry t of p was made for
InputKeys(p, t) == ThumbnailsOf(cmp[p].records[t.rec].msg, t.suffix)
MediaPathOf(p, t) == cmp[p].records[t.rec].msg.media_path

\* the file name of a key: what follows its last "/"
IsNameOf(name, key) ==
    /\ "/" \notin Range(name)
    /\ \/ key = name
       \/ \E j \in DOMAIN key : key[j] = "/" /\ SubSeq(key, j + 1, Len(key)) = name

\* a manifest line that refers to the thumbnail of key
RefersTo(line, key) ==
    /\ Len(line) >= 1
    /\ line[1] \in {"../thumbs/", "thumbs/"}
    /\ IsNameOf(Tail(line), key)

ManifestHeaderLines == 7

\* the lines of body are a header, one block of duration directive, tile
\* directive, reference and blank line per key, in the order of keys, and the
\* end-of-list marker; no other line is a tile directive or a duration directive
OneBlockPerKey(body, keys, resolution) ==
    LET lines == Split(body, "\n")
        n == Len(keys)
    IN  /\ Len(lines) = ManifestHeaderLines + 4 * n + 1
        /\ \A i \in 1..n :
              LET at == ManifestHeaderLines + 4 * (i - 1)
              IN  /\ lines[at + 1] = <<"#EXTINF:10.000,">>
                  /\ lines[at + 2] =
                        <<"#EXT-X-TILES:RESOLUTION=" \o resolution
                            \o ",LAYOUT=1x1,DURATION=10.000">>
                  /\ RefersTo(lines[at + 3], keys[i])
                  /\ lines[at + 4] = <<>>
        /\ lines[Len(lines)] = <<"#EXT-X-ENDLIST">>
        /\ Cardinality({j \in DOMAIN lines : lines[j] = <<"#EXTINF:10.000,">>}) = n
        /\ Cardinality({j \in DOMAIN lines :
                Len(lines[j]) >= 1 /\ lines[j][1] \in {"../thumbs/", "thumbs/"}}) = n

\* C1: every manifest the Composer puts for a non-empty key list has exactly one
\* tile-entry block per input key, in the order of the list, then the end-of-list
\* marker, and a manifest it put successfully is in storage under the manifest key.
C1_OneBlockPerKeyInOrder ==
    \A p \in ComposerProcs : \A i \in Ops(p, IsManifestPut) :
        LET t == cmp[p].trace[i]
        IN  /\ InputKeys(p, t) # <<>>
            /\ OneBlockPerKey(t.body, InputKeys(p, t), ResolutionOf(t.suffix))
            /\ t.ok => t.key \in DOMAIN s3

C1_Witness ==
    \E p \in ComposerProcs : \E i \in Ops(p, IsManifestPut) :
        LET t == cmp[p].trace[i]
        IN  /\ t.ok
            /\ Len(InputKeys(p, t)) = 2
            /\ ThumbnailName(InputKeys(p, t)[1]) # ThumbnailName(InputKeys(p, t)[2])
            /\ s3[t.key] = t.body


\* the playlist get of p that the playlist put at i of its trace follows
GetBefore(p, i) == cmp[p].trace[i - 1]

FilenameOf(suffix) == ManifestFilename(ResolutionOf(suffix))

\* the master playlist was found to name the manifest of t's resolution already
FoundApplied(t) == IsPlaylistGet(t) /\ Contains(t.body, <<FilenameOf(t.suffix)>>)

OnlyOneInvocation == cmp["c2"].pc = "off"

\* C2: when the master playlist the merge reads already contains the manifest's
\* filename, the merge of that resolution puts nothing; and an invocation all of
\* whose merges found their filename leaves the master playlist as it was.
C2_MergeIdempotent ==
    \A p \in ComposerProcs :
        /\ \A i \in Ops(p, FoundApplied) :
              \A j \in Ops(p, IsPlaylistPut) :
                 ~(cmp[p].trace[j].rec = cmp[p].trace[i].rec
                      /\ cmp[p].trace[j].suffix = cmp[p].trace[i].suffix)
        /\ (OnlyOneInvocation /\ Ops(p, IsPlaylistGet) = Ops(p, FoundApplied))
              => \A i \in Ops(p, FoundApplied) : s3[cmp[p].trace[i].key] = playlist0

C2_Witness ==
    /\ OnlyOneInvocation
    /\ cmp["c1"].pc = "returned"
    /\ cmp["c1"].outcomes = <<"ok">>
    /\ DOMAIN cmp["c1"].ret[1].results = {"small", "big"}
    /\ Cardinality(Ops("c1", FoundApplied)) = 2
    /\ s3[PlaylistKey(JobPlain)] = playlist0

\* C3: a playlist put that inserted the image-stream line has it immediately
\* before the first #EXT-X-STREAM-INF when the playlist read contains one, and
\* otherwise immediately before the first #EXT-X-ENDLIST.
C3_InsertionPoint ==
    \A p \in ComposerProcs : \A i \in Ops(p, IsPlaylistPut) :
        LET written == cmp[p].trace[i].body
            read == GetBefore(p, i).body
            line == LineOf(cmp[p].trace[i].suffix)
            at == FirstIndex(written, line)
        IN  /\ IsPlaylistGet(GetBefore(p, i))
            /\ at > 0 =>
                  IF Contains(read, <<"#EXT-X-STREAM-INF">>)
                  THEN /\ at + Len(line) = FirstIndex(written, <<"#EXT-X-STREAM-INF">>)
                       /\ at = FirstIndex(read, <<"#EXT-X-STREAM-INF">>)
                  ELSE /\ at + Len(line) = FirstIndex(written, <<"#EXT-X-ENDLIST">>)
                       /\ at = FirstIndex(read, <<"#EXT-X-ENDLIST">>)
            /\ (Contains(read, <<"#EXT-X-STREAM-INF">>)
                    \/ Contains(read, <<"#EXT-X-ENDLIST">>)) => at > 0

C3_Witness ==
    \E p \in ComposerProcs : \E i \in Ops(p, IsPlaylistPut) :
        /\ cmp[p].trace[i].ok
        /\ FirstIndex(GetBefore(p, i).body, <<"#EXT-X-STREAM-INF">>) > 0
        /\ FirstIndex(SubSeq(GetBefore(p, i).body,
                             FirstIndex(GetBefore(p, i).body, <<"#EXT-X-STREAM-INF">>) + 1,
                             Len(GetBefore(p, i).body)),
                      <<"#EXT-X-STREAM-INF">>) > 0
        /\ s3[cmp[p].trace[i].key] = cmp[p].trace[i].body


\* the invocation of p processed its one record completely
Succeeded(p) == cmp[p].pc = "returned" /\ cmp[p].outcomes = <<"ok">>

\* p merges only the manifest of one resolution
MergesOnly(p, suffix) ==
    /\ Len(cmp[p].records) = 1
    /\ \A s \in Suffixes : (ThumbnailsOf(cmp[p].records[1].msg, s) # <<>>) <=> (s = suffix)

HasReference(content, suffix) == Contains(content, LineOf(suffix))

\* the master playlist before the merges names neither manifest and has a place
\* for an image-stream line
PreMerge(content) ==
    /\ \A s \in Suffixes : ~Contains(content, <<FilenameOf(s)>>)
    /\ \/ Contains(content, <<"#EXT-X-STREAM-INF">>)
       \/ Contains(content, <<"#EXT-X-ENDLIST">>)

\* the playlist p read for its merge
ReadBy(p) == cmp[p].trace[CHOOSE i \in Ops(p, IsPlaylistGet) : TRUE].body

RaceCompleted ==
    /\ Succeeded("c1") /\ Succeeded("c2")
    /\ \/ MergesOnly("c1", "small") /\ MergesOnly("c2", "big")
       \/ MergesOnly("c1", "big") /\ MergesOnly("c2", "small")
    /\ PreMerge(playlist0)

\* C4: when a small-only and a big-only invocation for the same asset have both
\* succeeded, the master playlist has at least one of the two references, and it
\* lacks one exactly when both invocations read the pre-merge playlist: each then
\* wrote back its own line only and the later put replaced the earlier one.
C4_LostUpdateWindow ==
    RaceCompleted =>
        LET final == s3[PlaylistKey(JobPlain)]
        IN  /\ \E s \in Suffixes : HasReference(final, s)
            /\ (\E s \in Suffixes : ~HasReference(final, s))
                  <=> (ReadBy("c1") = playlist0 /\ ReadBy("c2") = playlist0)

\* both invocations succeeded and one of the two references is lost
C4_LostUpdate ==
    /\ RaceCompleted
    /\ ReadBy("c1") = playlist0 /\ ReadBy("c2") = playlist0
    /\ \E s \in Suffixes : ~HasReference(s3[PlaylistKey(JobPlain)], s)
    /\ cmp["c1"].status = 200 /\ cmp["c2"].status = 200
    /\ \A p \in ComposerProcs : cmp[p].ret[1].raised = None

\* C5: for a resolution whose thumbnail list is empty the invocation makes no S3
\* call (no manifest put, no playlist get or put), and the status map it returns
\* has a key for exactly the resolutions whose list is non-empty; an invocation
\* running alone on one record leaves no manifest object for that resolution.
C5_EmptyListSkipped ==
    \A p \in ComposerProcs :
        /\ \A i \in DOMAIN cmp[p].trace :
              InputKeys(p, cmp[p].trace[i]) # <<>>
        /\ \A k \in DOMAIN cmp[p].ret :
              LET r == cmp[p].ret[k]
              IN  r.raised = None =>
                     DOMAIN r.results =
                        {s \in Suffixes : ThumbnailsOf(cmp[p].records[r.rec].msg, s) # <<>>}
        /\ (OnlyOneInvocation /\ Len(cmp[p].records) = 1 /\ RecordUsable(cmp[p].records[1]))
              => \A s \in Suffixes :
                    ThumbnailsOf(cmp[p].records[1].msg, s) = <<>>
                       => ManifestKey(cmp[p].records[1].msg.media_path, ResolutionOf(s))
                             \notin DOMAIN s3

C5_Witness ==
    /\ OnlyOneInvocation
    /\ Succeeded("c1")
    /\ ThumbnailsOf(cmp["c1"].records[1].msg, "small") = <<>>
    /\ DOMAIN cmp["c1"].ret[1].results = {"big"}
    /\ Len(cmp["c1"].trace) = 3

\* the media path has a path segment named hls
HasHlsSegment(media_path) ==
    \E i \in DOMAIN media_path :
        /\ media_path[i] = "hls"
        /\ i < Len(media_path) /\ media_path[i + 1] = "/"
        /\ (i = 1 \/ media_path[i - 1] = "/")

\* the thumbnail references of a manifest body: its lines that are neither
\* blank nor a directive
References(body) ==
    LET lines == Split(body, "\n")
    IN  {lines[j] : j \in {k \in DOMAIN lines :
            Len(lines[k]) >= 1 /\ lines[k][1] \in {"../thumbs/", "thumbs/"}}}

\* C9: every thumbnail reference of a manifest starts with ../thumbs/ when the
\* media path has an hls/ path segment and with thumbs/ for every other media path.
C9_PrefixBySegment ==
    \A p \in ComposerProcs : \A i \in Ops(p, IsManifestPut) :
        \A ref \in References(cmp[p].trace[i].body) :
            ref[1] = IF HasHlsSegment(MediaPathOf(p, cmp[p].trace[i]))
                     THEN "../thumbs/" ELSE "thumbs/"


\* the calls of invalidate_cache made so far, by the handler and directly
Calls ==
    Range(ivh.calls) \cup (IF caller.pc = "done" THEN {caller.call} ELSE {})

\* the distribution id a call works with: its argument, else the configured one
EffectiveId(call) ==
    IF call.distribution_id \notin {None, ""} THEN call.distribution_id
    ELSE cfg.AWS_CLOUDFRONT_DISTRIBUTION_ID

Configured(call) == EffectiveId(call) \notin {None, ""}

\* C6 as claimed: with an empty path list the Invalidator returns no identifier,
\* raises no error and makes no CDN call, whatever the distribution id.
C6_EmptyListAlwaysNoOp ==
    \A call \in Calls :
        call.paths = <<>> =>
            call.ret = None /\ call.raised = None /\ call.requests = <<>>

\* C6 amended: with an empty path list the Invalidator returns no identifier and
\* makes no CDN call; it raises no error when a distribution id is given or
\* configured, and raises the CDN-invalidation error when none is.
C6_EmptyListNoCall ==
    \A call \in Calls :
        call.paths = <<>> =>
            /\ call.ret = None
            /\ call.requests = <<>>
            /\ call.raised = (IF Configured(call) THEN None ELSE "CDNInvalidationError")
            /\ caller.pc = "done" => cdn = <<>>

C6_Witness ==
    /\ caller.pc = "done"
    /\ caller.call.paths = <<>>
    /\ ~Configured(caller.call)
    /\ caller.call.raised = "CDNInvalidationError"
    /\ cdn = <<>>

\* the provider call of a call failed
ProviderFailed(call) == call.requests # <<>> /\ ~call.requests[1].response.ok

\* C7: with a non-empty path list the Invalidator raises the CDN-invalidation
\* error, and nothing else, exactly when no distribution id is given or
\* configured, in which case it makes no provider call, or the provider call fails.
C7_FailsWithCdnError ==
    \A call \in Calls :
        call.paths # <<>> =>
            /\ call.raised \in {None, "CDNInvalidationError"}
            /\ ~Configured(call) =>
                  call.raised = "CDNInvalidationError" /\ call.requests = <<>>
            /\ ProviderFailed(call) => call.raised = "CDNInvalidationError"
            /\ call.raised # None => (~Configured(call) \/ ProviderFailed(call))
            /\ call.raised # None => call.ret = None

C7_Witness ==
    /\ caller.pc = "done"
    /\ caller.call.paths # <<>>
    /\ ProviderFailed(caller.call)
    /\ caller.call.requests[1].response.error = "ConnectionError"
    /\ caller.call.raised = "CDNInvalidationError"

\* C8: with a non-empty path list and a distribution id, one call makes exactly
\* one provider request, for that distribution and with exactly the given paths,
\* and when the provider accepts it the call returns the id the provider assigned.
C8_OneBatchRequest ==
    /\ \A call \in Calls :
          (call.paths # <<>> /\ Configured(call)) =>
              /\ Len(call.requests) = 1
              /\ call.requests[1].Items = call.paths
              /\ call.requests[1].Quantity = Len(call.paths)
              /\ call.requests[1].DistributionId = EffectiveId(call)
              /\ call.requests[1].response.ok =>
                    call.ret = call.requests[1].response.id /\ call.raised = None
    /\ caller.pc = "done" => cdn = caller.call.requests
    /\ caller.pc = "off" => Len(cdn) <= Len(ivh.calls)

C8_Witness ==
    /\ caller.pc = "done"
    /\ Len(caller.call.paths) = 2
    /\ caller.call.paths[1] # caller.call.paths[2]
    /\ Len(cdn) = 1
    /\ cdn[1].response.ok
    /\ caller.call.ret = cdn[1].response.id

\* the records of a batch that reach the stage call
ComposerUsable(records) == {i \in DOMAIN records : RecordUsable(records[i])}
InvalidatorUsable(records) ==
    {i \in DOMAIN records : records[i].parses /\ records[i].handle}

\* C10: a handler that passed configuration validation takes the records of its
\* batch one after another in batch order, and by the time it returns it has
\* taken every record and called its stage for every record that can be handed
\* to it, whatever happened to the records before.
C10_RecordsIsolated ==
    /\ \A p \in ComposerProcs :
          LET c == cmp[p]
          IN  /\ \A i \in DOMAIN c.attempted : c.attempted[i] = i
              /\ (c.pc = "returned" /\ c.status = 200) =>
                    /\ Len(c.attempted) = Len(c.records)
                    /\ Len(c.outcomes) = Len(c.records)
                    /\ {c.ret[k].rec : k \in DOMAIN c.ret} = ComposerUsable(c.records)
    /\ \A i \in DOMAIN ivh.attempted : ivh.attempted[i] = i
    /\ (ivh.pc = "returned" /\ ivh.status = 200) =>
          /\ Len(ivh.attempted) = Len(ivh.records)
          /\ Len(ivh.outcomes) = Len(ivh.records)
          /\ Len(ivh.calls) = Cardinality(InvalidatorUsable(ivh.records))

C10_Witness ==
    /\ cmp["c1"].pc = "returned"
    /\ cmp["c1"].status = 200
    /\ Len(cmp["c1"].records) = 2
    /\ cmp["c1"].outcomes = <<"composer_failed", "ok">>

-----------------------------------------------------------------------------
(* Properties of the Extractor and the Composer on the same bucket *)

\* the characters of a text, as one string
RECURSIVE Chars(_)
Chars(s) == IF Len(s) = 0 THEN "" ELSE Head(s) \o Chars(Tail(s))

\* the record of the manifest queue an invalidation message was published for
SourceOf(m) == cmp[m.from[1]].records[m.from[2]].msg

\* the CDN path of an object of the bucket
CdnPath(key) == "/" \o Chars(key)

\* C11: the paths of every Composer -> Invalidator message are exactly the path
\* of the master playlist named by hlsUrl, the paths of the manifests of the small
\* and the big resolution, and a wildcard for the thumbnails folder under mediaPath.
C11_PathsOfWrittenObjects ==
    \A i \in DOMAIN invq :
        LET m == invq[i]
            src == SourceOf(m)
            paths == m.paths_to_invalidate
        IN  /\ Len(paths) = 4
            /\ {Chars(paths[j]) : j \in DOMAIN paths} =
                  { CdnPath(PlaylistKeyParts(src.hls_url)[2]),
                    CdnPath(ManifestKey(src.media_path, THUMBNAIL_SMALL_RESOLUTION)),
                    CdnPath(ManifestKey(src.media_path, THUMBNAIL_BIG_RESOLUTION)),
                    CdnPath(src.media_path \o <<THUMBNAILS_FOLDER, "/*">>) }

\* why a failed Extractor invocation failed: the event was malformed, or a
\* collaborator (storage, the frame sampler) failed
MalformedCauses == {"missing_field", "no_playlist_path"}
InfrastructureCauses == {"storage", "sampler"}

\* C12: an Extractor invocation that fails because its event lacks mediaKey or
\* mediaKeyId or names no playlist returns status 400, and one that fails because
\* storage or the frame sampler failed returns status 500.
C12_StatusByFailureClass ==
    \A p \in ExtractorProcs :
        (ext[p].pc = "returned" /\ ext[p].cause # None) =>
            /\ ext[p].cause \in MalformedCauses => ext[p].status = 400
            /\ ext[p].cause \in InfrastructureCauses => ext[p].status = 500

\* the invocations of a run, their S3 calls, and the job each works on
Invocations ==
    {<<"composer", p>> : p \in ComposerProcs} \cup {<<"extractor", p>> : p \in ExtractorProcs}
CallsOf(v) == IF v[1] = "composer" THEN cmp[v[2]].trace ELSE ext[v[2]].trace
Active(v) == CallsOf(v) # <<>>
JobPathOf(v) ==
    IF v[1] = "composer" THEN cmp[v[2]].records[1].msg.media_path
    ELSE ext[v[2]].media_path
JobPlaylistOf(v) ==
    PlaylistKeyParts(IF v[1] = "composer" THEN cmp[v[2]].records[1].msg.hls_url
                     ELSE ext[v[2]].hls_url)[2]
PutKeys(v) == {CallsOf(v)[i].key : i \in {j \in DOMAIN CallsOf(v) : CallsOf(v)[j].op = "put"}}

IsPrefix(pre, s) == Len(pre) <= Len(s) /\ SubSeq(s, 1, Len(pre)) = pre

ScopedKey(v, t) ==
    IF t.obj = "thumbnail" THEN IsPrefix(JobPathOf(v) \o <<THUMBNAILS_FOLDER, "/">>, t.key)
    ELSE IF t.obj = "manifest" THEN IsPrefix(JobPathOf(v), t.key)
    ELSE t.key = JobPlaylistOf(v)

\* v and w work on jobs with distinct media paths and distinct master playlists
Separate(v, w) ==
    /\ JobPathOf(v) # JobPathOf(w)
    /\ JobPlaylistOf(v) # JobPlaylistOf(w)

\* what v finds under key at its i-th call when nobody else wrote it: what v put
\* there last, or the object the run started with
OwnView(v, i, key) ==
    LET mine == {j \in 1..(i - 1) :
                    CallsOf(v)[j].op = "put" /\ CallsOf(v)[j].ok /\ CallsOf(v)[j].key = key}
    IN  IF mine = {} THEN playlist0
        ELSE CallsOf(v)[CHOOSE j \in mine : \A h \in mine : h <= j].body

Redelivered(p) ==
    /\ Len(cmp[p].records) >= 2
    /\ \A i \in DOMAIN cmp[p].records : cmp[p].records[i] = cmp[p].records[1]

\* the Composer call for the first record of p returned without raising
FirstRunDone(p) == Len(cmp[p].ret) >= 1 /\ cmp[p].ret[1].raised = None

\* the puts of p for its first record that reached storage under key
FirstRunPuts(p, key) ==
    {j \in DOMAIN cmp[p].trace :
        /\ cmp[p].trace[j].rec = 1
        /\ cmp[p].trace[j].op = "put" /\ cmp[p].trace[j].ok
        /\ cmp[p].trace[j].key = key}

\* the object under key when the first run had ended
AfterFirstRun(p, key) ==
    IF FirstRunPuts(p, key) = {} THEN playlist0
    ELSE cmp[p].trace[CHOOSE j \in FirstRunPuts(p, key) :
                            \A h \in FirstRunPuts(p, key) : h <= j].body

\* C14: once the Composer has processed a message, processing the same message
\* again changes nothing in storage: every manifest and the master playlist stay,
\* through and after the later runs, what they were when the first run ended.
C14_RedeliveryChangesNothing ==
    \A p \in ComposerProcs :
        (Redelivered(p) /\ FirstRunDone(p) /\ cmp[p].idx >= 2 /\ ExtractorIdle) =>
            /\ \A key \in DOMAIN s3 : s3[key] = AfterFirstRun(p, key)
            /\ \A j \in DOMAIN cmp[p].trace :
                  LET t == cmp[p].trace[j]
                  IN  (t.rec >= 2 /\ t.op = "put") => t.body = AfterFirstRun(p, t.key)

\* both runs succeeded; the second one put both manifests again and found the
\* master playlist updated for both
C14_Witness ==
    /\ Redelivered("c1")
    /\ cmp["c1"].pc = "returned"
    /\ cmp["c1"].outcomes[1] = "ok" /\ cmp["c1"].outcomes[2] = "ok"
    /\ Cardinality({j \in Ops("c1", IsManifestPut) :
            cmp["c1"].trace[j].rec = 2 /\ cmp["c1"].trace[j].ok}) = 2
    /\ Cardinality({j \in Ops("c1", IsPlaylistPut) : cmp["c1"].trace[j].rec = 1}) = 2
    /\ Cardinality({j \in Ops("c1", FoundApplied) : cmp["c1"].trace[j].rec = 2}) = 2
    /\ s3[PlaylistKeyParts(cmp["c1"].records[1].msg.hls_url)[2]] # playlist0

\* written is read with line spliced in at one place and nothing else changed
OneLineInserted(read, written, line) ==
    \E i \in 0..Len(read) :
        written = SubSeq(read, 1, i) \o line \o SubSeq(read, i + 1, Len(read))

\* C15: every merge that is not skipped as already applied writes back the master
\* playlist it read with exactly one image-stream line of its resolution inserted
\* and every other byte unchanged, whatever the playlist contains.
C15_ExactlyOneLineInserted ==
    \A p \in ComposerProcs : \A i \in Ops(p, IsPlaylistPut) :
        OneLineInserted(GetBefore(p, i).body, cmp[p].trace[i].body,
                        LineOf(cmp[p].trace[i].suffix))

\* content has an image-stream line whose URI is the manifest filename
HasImageStreamFor(content, filename) ==
    \E i \in DOMAIN content :
        /\ content[i] = "#EXT-X-IMAGE-STREAM-INF"
        /\ i + 2 <= Len(content)
        /\ content[i + 2] = filename

\* C16: when the Composer, running alone, has returned a status for a resolution,
\* the master playlist in storage has an image-stream line for the manifest of
\* that resolution, whatever the playlist contained before.
C16_SuccessMeansReferenced ==
    \A p \in ComposerProcs :
        (OnlyOneInvocation /\ ExtractorIdle) =>
            \A k \in DOMAIN cmp[p].ret : \A s \in DOMAIN cmp[p].ret[k].results :
                LET key == PlaylistKeyParts(cmp[p].records[cmp[p].ret[k].rec].msg.hls_url)[2]
                IN  /\ key \in DOMAIN s3
                    /\ HasImageStreamFor(s3[key], FilenameOf(s))

\* in a sequence of calls or sampler runs nothing for the small profile comes
\* after something for the big profile of the same record
SmallBeforeBig(calls, SameRecord(_, _)) ==
    \A i, j \in DOMAIN calls :
        (SameRecord(calls[i], calls[j]) /\ calls[i].suffix = "small"
            /\ calls[j].suffix = "big") => i < j

SameRec(a, b) == a.rec = b.rec
SameRun(a, b) == TRUE

\* C17: an invocation works on the small profile, then on the big one: all S3
\* calls and sampler runs for the small resolution come before any for the big
\* resolution, and a Composer running alone on a master playlist that has an
\* insertion point and neither reference, given both lists, leaves a playlist with
\* both image-stream lines, the small one before the big one.
C17_SmallThenBig ==
    /\ \A p \in ComposerProcs : SmallBeforeBig(cmp[p].trace, SameRec)
    /\ \A p \in ExtractorProcs :
          /\ SmallBeforeBig(ext[p].trace, SameRun)
          /\ SmallBeforeBig(ext[p].samples, SameRun)
    /\ \A p \in ComposerProcs :
          (/\ OnlyOneInvocation /\ ExtractorIdle
           /\ FirstRunDone(p)
           /\ DOMAIN cmp[p].ret[1].results = Suffixes
           /\ PreMerge(playlist0)) =>
              LET final == s3[PlaylistKeyParts(cmp[p].records[1].msg.hls_url)[2]]
              IN  /\ HasReference(final, "small") /\ HasReference(final, "big")
                  /\ FirstIndex(final, LineOf("small")) < FirstIndex(final, LineOf("big"))

C17_Witness ==
    /\ OnlyOneInvocation /\ ExtractorIdle
    /\ Succeeded("c1")
    /\ DOMAIN cmp["c1"].ret[1].results = Suffixes
    /\ PreMerge(playlist0)
    /\ Len(cmp["c1"].trace) = 6
    /\ cmp["c1"].trace[3].suffix = "small" /\ IsPlaylistPut(cmp["c1"].trace[3])
    /\ cmp["c1"].trace[5].suffix = "big" /\ IsPlaylistGet(cmp["c1"].trace[5])
    /\ cmp["c1"].trace[5].body = cmp["c1"].trace[3].body
    /\ HasReference(cmp["c1"].trace[6].body, "small")

\* the messages an Extractor invocation, or a Composer invocation for its i-th
\* record, has published
SentByExtractor(p) == {k \in DOMAIN mq : mq[k].from = p}
SentByComposer(p, i) == {k \in DOMAIN invq : invq[k].from = <<p, i>>}

\* the records of p that lambda_handler processed to the end
ProcessedRecords(p) == {i \in DOMAIN cmp[p].outcomes : cmp[p].outcomes[i] = "ok"}

CallsFor(p, i) == {j \in DOMAIN cmp[p].trace : cmp[p].trace[j].rec = i}

\* the Composer call of p for its i-th record wrote the manifest of the
\* resolution and left the master playlist merged or found it merged
Committed(p, i, suffix) ==
    /\ \E j \in CallsFor(p, i) :
          LET t == cmp[p].trace[j]
          IN  IsManifestPut(t) /\ t.suffix = suffix /\ t.ok
    /\ \E j \in CallsFor(p, i) :
          LET t == cmp[p].trace[j]
          IN  /\ t.suffix = suffix
              /\ \/ FoundApplied(t)
                 \/ IsPlaylistPut(t) /\ t.ok

\* C19: an invalidation message for a record is on the queue only when the
\* Composer call for that record has returned, every S3 call it made succeeded
\* and, for each resolution with thumbnails, the manifest is written and the
\* master playlist merged; a record whose Composer call raised has no message.
C19_PublishedAfterCommit ==
    \A p \in ComposerProcs :
        /\ \A k \in DOMAIN invq :
              invq[k].from[1] = p =>
                 LET i == invq[k].from[2]
                     msg == cmp[p].records[i].msg
                 IN  /\ \E r \in DOMAIN cmp[p].ret :
                           cmp[p].ret[r].rec = i /\ cmp[p].ret[r].raised = None
                     /\ \A j \in CallsFor(p, i) : cmp[p].trace[j].ok
                     /\ \A s \in Suffixes :
                           ThumbnailsOf(msg, s) # <<>> => Committed(p, i, s)
        /\ \A r \in DOMAIN cmp[p].ret :
              cmp[p].ret[r].raised # None => SentByComposer(p, cmp[p].ret[r].rec) = {}

\* a message is on the queue for a record both of whose resolutions were
\* committed, and none for a record of the same batch whose Composer call raised
C19_Witness ==
    /\ Len(cmp["c1"].records) = 2
    /\ cmp["c1"].pc = "returned"
    /\ cmp["c1"].ret[1].raised = None /\ cmp["c1"].ret[2].raised # None
    /\ Len(invq) = 1
    /\ invq[1].from = <<"c1", 1>>
    /\ Committed("c1", 1, "small") /\ Committed("c1", 1, "big")
    /\ \E j \in CallsFor("c1", 2) : ~cmp["c1"].trace[j].ok

\* the runs of the frame sampler in p that exited with a non-zero code
FailedSamples(p) ==
    {k \in DOMAIN ext[p].samples :
        ext[p].samples[k].outcome.started /\ ext[p].samples[k].outcome.exit # 0}

\* C20: when the frame sampler exits non-zero for a resolution, nothing of that
\* resolution is uploaded, the sampler is not run again, the invocation ends with
\* a processing failure whose message carries the sampler's diagnostic output,
\* no message is on the manifest queue, and what was uploaded for the earlier
\* resolution is still in storage.
C20_SamplerFailureAborts ==
    \A p \in ExtractorProcs : \A k \in FailedSamples(p) :
        LET run == ext[p].samples[k]
        IN  /\ k = Len(ext[p].samples)
            /\ \A j \in DOMAIN ext[p].trace :
                  ~(ext[p].trace[j].op = "put" /\ ext[p].trace[j].suffix = run.suffix)
            /\ ext[p].keys[run.suffix] = <<>>
            /\ run.suffix = "small" => ext[p].keys["big"] = <<>>
            /\ ext[p].pc = "returned" /\ ext[p].status # 200
            /\ ext[p].raised.kind = "FFMpegError"
            /\ run.outcome.stderr.bytes # ""
                  => run.outcome.stderr.bytes \in Range(ext[p].raised.msg)
            /\ SentByExtractor(p) = {}
            /\ \A j \in DOMAIN ext[p].trace :
                  (ext[p].trace[j].op = "put" /\ ext[p].trace[j].ok)
                      => /\ ext[p].trace[j].key \in DOMAIN s3
                         /\ s3[ext[p].trace[j].key] = ext[p].trace[j].body

-----------------------------------------------------------------------------
(* The error kinds of the stage functions *)

\* the failures of an Extractor invocation that arose inside generate_thumbnails
GeneratorCauses == {"tempdir", "storage", "playlist_url", "sampler"}

\* C21: whatever fails inside a stage function leaves it as the stage's own error
\* kind: FFMpegError from generate_thumbnails, ManifestGenerationError from
\* create_manifests_and_update_playlist, CDNInvalidationError from invalidate_cache.
C21_OneErrorKindPerStage ==
    /\ \A p \in ExtractorProcs :
          ext[p].cause \in GeneratorCauses => ext[p].raised.kind = "FFMpegError"
    /\ \A p \in ComposerProcs : \A r \in DOMAIN cmp[p].ret :
          cmp[p].ret[r].raised \in {None, "ManifestGenerationError"}
    /\ \A k \in DOMAIN ivh.calls :
          ivh.calls[k].raised \in {None, "CDNInvalidationError"}
    /\ caller.call.raised \in {None, "CDNInvalidationError"}

-----------------------------------------------------------------------------
(* The job's identity from stage to stage *)

\* the output file paths of an event, whatever group and output they are in
OutputPaths(detail) ==
    UNION { UNION { Range(o.outputFilePaths) : o \in Range(g.outputDetails) } :
            g \in Range(detail.outputGroupDetails) }

\* an invalidation request the CDN accepted
Accepted(request) == request.response.ok

\* C22: the mediaKey, mediaPath and hlsUrl of every Extractor -> Composer message
\* are those of the event the Extractor was given, and the mediaKey and mediaPath
\* of every Composer -> Invalidator message are those of the message the Composer
\* was given, hence those of the event.
C22_IdentityFlowsUnchanged ==
    /\ \A k \in DOMAIN mq :
          LET detail == ext[mq[k].from].event.detail
          IN  /\ mq[k].media_key = detail.mediaKey
              /\ mq[k].media_path = detail.mediaKeyId
              /\ mq[k].hls_url \in OutputPaths(detail)
              /\ Contains(mq[k].hls_url, <<"m3u8">>)
    /\ \A k \in DOMAIN invq :
          LET src == SourceOf(invq[k])
              origin == mq[cmp[invq[k].from[1]].records[invq[k].from[2]].id]
          IN  /\ invq[k].media_key = src.media_key
              /\ invq[k].media_path = src.media_path
              /\ src.media_key = origin.media_key
              /\ src.media_path = origin.media_path
              /\ src.hls_url = origin.hls_url

\* the job went through the three stages: its event led to a message on each
\* queue and to a request the CDN accepted
C22_Witness ==
    /\ ext["e1"].event = TriggerEvent(JobMaster)
    /\ Len(mq) = 1 /\ mq[1].media_key = "b2"
    /\ invq # <<>> /\ invq[1].media_path = JobMaster.media_path
    /\ \E i \in DOMAIN cdn : Accepted(cdn[i])

-----------------------------------------------------------------------------
(* Deleting the inbound record *)

\* the Composer call of p for its i-th record returned without raising
ComposerSucceeded(p, i) ==
    \E r \in DOMAIN cmp[p].ret : cmp[p].ret[r].rec = i /\ cmp[p].ret[r].raised = None

\* the records of p that lambda_handler gave up on
FailedRecords(p) == {i \in DOMAIN cmp[p].outcomes : cmp[p].outcomes[i] # "ok"}

-----------------------------------------------------------------------------
(* What the Extractor returns for a resolution *)

\* _generate_resolution_thumbnails has returned to generate_thumbnails for suffix
ResolutionReturned(p, suffix) ==
    \/ ext[p].pc = "publish"
    \/ ext[p].pc = "returned" /\ (ext[p].status = 200 \/ ext[p].cause = "queue")
    \/ suffix = "small" /\ ext[p].cur = "big"

\* the uploads p made for suffix, in the order it made them
UploadsOf(p, suffix) ==
    SelectSeq(ext[p].trace, LAMBDA t : t.op = "put" /\ t.suffix = suffix)

\* C24: for each resolution the Extractor has returned from, the keys it returned
\* are the media path, the thumbnails folder and the file name of each file the
\* sampler wrote, in the order of the file names; each of them was uploaded, in
\* that order and with nothing else, and is in storage.
C24_ReturnsUploadedKeysInOrder ==
    \A p \in ExtractorProcs : \A suffix \in Suffixes :
        ResolutionReturned(p, suffix) =>
            \E k \in DOMAIN ext[p].samples :
                LET run == ext[p].samples[k]
                    keys == ext[p].keys[suffix]
                    ups == UploadsOf(p, suffix)
                IN  /\ run.suffix = suffix
                    /\ run.outcome.started /\ run.outcome.exit = 0
                    /\ Len(keys) = run.outcome.frames
                    /\ \A i \in DOMAIN keys :
                          keys[i] = ext[p].media_path \o <<"thumbs", "/">>
                                        \o FrameFile(ext[p].media_key, suffix, i)
                    /\ Len(ups) = Len(keys)
                    /\ \A i \in DOMAIN ups :
                          /\ ups[i].ok
                          /\ ups[i].key = keys[i]
                          /\ keys[i] \in DOMAIN s3

\* both resolutions returned, each with the keys of two files
C24_Witness ==
    /\ ext["e1"].pc = "publish"
    /\ Len(ext["e1"].keys["small"]) = 2
    /\ Len(ext["e1"].keys["big"]) = 2
    /\ ext["e1"].keys["small"][1] # ext["e1"].keys["small"][2]
    /\ Len(UploadsOf("e1", "big")) = 2

-----------------------------------------------------------------------------
(* Completion of a job *)

\* the CDN accepted an invalidation request for the job of the event
JobCompleted ==
    \E i \in DOMAIN cdn :
        /\ Accepted(cdn[i])
        /\ \E k \in DOMAIN invq :
              /\ cdn[i].Items = invq[k].paths_to_invalidate
              /\ invq[k].media_path = ext["e1"].event.detail.mediaKeyId

\* the queues have delivered as often as the model lets them, and in vain
DeliveriesExhausted ==
    /\ DeliveriesMade = MaxDeliveries
    /\ cmp["c1"].pc = "returned"
    /\ ivh.pc \in {"off", "returned"}
    /\ \A i \in DOMAIN cdn : ~Accepted(cdn[i])

\* the Extractor answered the event with a failure response
ExtractorFailed == ext["e1"].pc = "returned" /\ ext["e1"].status # 200

\* no stage is running and no queue has anything left that it may deliver: the
\* state every fair run of the pipeline ends in
Quiescent ==
    /\ \A p \in ExtractorProcs : ext[p].pc \in {"off", "returned"}
    /\ \A p \in ComposerProcs : cmp[p].pc \in {"off", "returned"}
    /\ ivh.pc \in {"off", "returned"}
    /\ \/ DeliveriesMade >= MaxDeliveries
       \/ (\A k \in DOMAIN mq : Acked(k)) /\ invq = <<>>

\* C25: under fair scheduling, with queues that deliver again what is not
\* deleted, every event with valid fields leads to an invalidation request for
\* its job that the CDN accepts: when the pipeline has come to rest, the job is
\* completed, unless a queue ran out of the deliveries the model gives it.
C25_JobCompletes ==
    Quiescent => (JobCompleted \/ DeliveriesExhausted)

-----------------------------------------------------------------------------
(* The master playlist never names a manifest that is not there *)

\* the master playlist of the asset names the manifest of this resolution, and it
\* did not when the invocations began: the Composer put the reference in
InsertedByComposer(suffix) ==
    /\ Contains(s3[PlaylistKey(JobA)], <<FilenameOf(suffix)>>)
    /\ ~Contains(playlist0, <<FilenameOf(suffix)>>)

\* the successful puts of the master playlist in the trace of p
PlaylistPutsDone(p) == {i \in Ops(p, IsPlaylistPut) : cmp[p].trace[i].ok}

\* C26: in every reachable state, a reference the Composer has inserted into the
\* master playlist for a resolution has its manifest object in storage, and every
\* successful put of the master playlist by an invocation comes after a successful
\* put of the manifest of the same record and resolution by that invocation
C26_NoDanglingReference ==
    /\ \A suffix \in {"small", "big"} :
          InsertedByComposer(suffix) =>
              ManifestKey(JobA.media_path, ResolutionOf(suffix)) \in DOMAIN s3
    /\ \A p \in ComposerProcs : \A i \in PlaylistPutsDone(p) :
          \E j \in Ops(p, IsManifestPut) :
             /\ j < i
             /\ cmp[p].trace[j].ok
             /\ cmp[p].trace[j].rec = cmp[p].trace[i].rec
             /\ cmp[p].trace[j].suffix = cmp[p].trace[i].suffix
             /\ cmp[p].trace[j].key \in DOMAIN s3

\* both references inserted by the Composer, while another invocation failed to put
\* a manifest and so never reached the master playlist for that record
C26_Witness ==
    /\ InsertedByComposer("small")
    /\ InsertedByComposer("big")
    /\ \E p \in ComposerProcs : \E j \in Ops(p, IsManifestPut) :
          /\ ~cmp[p].trace[j].ok
          /\ \A i \in Ops(p, IsPlaylistPut) : cmp[p].trace[i].rec # cmp[p].trace[j].rec

-----------------------------------------------------------------------------
(* Redelivery and races never duplicate a line *)

\* the number of places of the text at which the line stands
TimesIn(s, line) == Cardinality({i \in 1..Len(s) : StartsAt(s, line, i)})

\* the number of places at which updated_content puts the line: before the first
\* variant stream when there is one, else before every end marker
InsertionPoints(playlist_content) ==
    IF Contains(playlist_content, <<"#EXT-X-STREAM-INF">>) THEN 1
    ELSE TimesIn(playlist_content, <<"#EXT-X-ENDLIST">>)

\* a master playlist without image-stream reference and with one insertion point
FreshPlaylist(playlist_content) ==
    /\ ~Contains(playlist_content, <<"#EXT-X-IMAGE-STREAM-INF">>)
    /\ InsertionPoints(playlist_content) = 1

\* the invocation p put the master playlist with the line of this resolution
Merged(p, suffix) ==
    \E i \in PlaylistPutsDone(p) : cmp[p].trace[i].suffix = suffix

\* C27: from a master playlist with no image-stream reference and one insertion
\* point, in every reachable state of invocations for one asset, one after the other
\* and at the same time, the master playlist holds the reference line of each
\* manifest filename at most once
C27_LineAtMostOnce ==
    FreshPlaylist(playlist0) =>
        \A suffix \in {"small", "big"} :
            /\ TimesIn(s3[PlaylistKey(JobA)], LineOf(suffix)) <= 1
            /\ TimesIn(s3[PlaylistKey(JobA)], <<FilenameOf(suffix)>>) <= 1

\* both invocations read the playlist before either wrote and both put the small
\* line, a later delivery to c1 found it there, and the line stands once
C27_Witness ==
    /\ FreshPlaylist(playlist0)
    /\ Merged("c1", "small")
    /\ Merged("c2", "small")
    /\ \E i \in Ops("c1", FoundApplied) :
          cmp["c1"].trace[i].suffix = "small" /\ cmp["c1"].trace[i].rec = 2
    /\ TimesIn(s3[PlaylistKey(JobA)], LineOf("small")) = 1

-----------------------------------------------------------------------------
(* Duplicate deliveries handled at the same time *)

\* every message handled by either invocation carries both lists
AllCarryBoth ==
    \A p \in ComposerProcs : \A i \in DOMAIN cmp[p].records :
        /\ cmp[p].records[i].msg.small_thumbnails # <<>>
        /\ cmp[p].records[i].msg.big_thumbnails # <<>>

\* both handlers returned and the Composer raised for none of their messages
AllCompletedSuccessfully ==
    \A p \in ComposerProcs :
        /\ cmp[p].pc = "returned"
        /\ \A i \in DOMAIN cmp[p].records : ComposerSucceeded(p, i)

\* the master playlist of the asset holds the reference line of this resolution
HoldsReference(suffix) == Contains(s3[PlaylistKey(JobA)], LineOf(suffix))

\* C28: when the invocations for one asset run at the same time and each carries a
\* non-empty small and a non-empty big list, then whatever the interleaving of their
\* reads and writes of the master playlist, once all of them have completed
\* successfully the master playlist holds both the small and the big reference; a
\* reference is missing at rest only if some invocation handled one resolution or
\* failed
C28_BothReferencesAfterRace ==
    (AllCarryBoth /\ AllCompletedSuccessfully) =>
        (HoldsReference("small") /\ HoldsReference("big"))

-----------------------------------------------------------------------------
(* The status of a batch *)

\* C29: the Composer and the Invalidator handler return 200 whenever the
\* configuration is valid, however many records of the batch failed, also when
\* every record failed; they return another status only for a failure outside the
\* loop over the records, which is before any record was taken
C29_StatusIgnoresRecordFailures ==
    /\ \A p \in ComposerProcs :
          cmp[p].pc = "returned" =>
              /\ ConfigValid(cfg) => cmp[p].status = 200
              /\ cmp[p].status # 200 =>
                    ~ConfigValid(cfg) /\ cmp[p].attempted = <<>> /\ cmp[p].outcomes = <<>>
    /\ ivh.pc = "returned" =>
          /\ ConfigValid(cfg) => ivh.status = 200
          /\ ivh.status # 200 =>
                ~ConfigValid(cfg) /\ ivh.attempted = <<>> /\ ivh.outcomes = <<>>

\* a batch of two records that both failed, answered with 200
C29_Witness ==
    /\ cmp["c1"].pc = "returned"
    /\ cmp["c1"].status = 200
    /\ Len(cmp["c1"].records) = 2
    /\ FailedRecords("c1") = {1, 2}

-----------------------------------------------------------------------------
(* Who writes what *)

\* the master playlist at this key holds the reference line of this resolution
HoldsReferenceIn(key, suffix) == Contains(s3[key], LineOf(suffix))

\* the playlist with the image-stream lines of both resolutions taken out
WithoutImageStreams(playlist_content) ==
    ReplaceAll(ReplaceAll(playlist_content, LineOf("small"), <<>>), LineOf("big"), <<>>)

\* the keys of the master playlists in storage
PlaylistKeys == {PlaylistKey(JobA), PlaylistKey(JobMaster)}

\* the keys the Extractor has put, and the keys the Composer has put
PutByExtractor ==
    UNION { {ext[p].trace[i].key : i \in
                {n \in DOMAIN ext[p].trace :
                    ext[p].trace[n].op = "put" /\ ext[p].trace[n].ok}} :
            p \in ExtractorProcs }
PutByComposer ==
    UNION { {cmp[p].trace[i].key : i \in
                {n \in DOMAIN cmp[p].trace :
                    cmp[p].trace[n].op = "put" /\ cmp[p].trace[n].ok}} :
            p \in ComposerProcs }

\* what is in storage and in the queues, as far as the stages write it
WrittenState ==
    /\ \A k \in PlaylistKeys : WithoutImageStreams(s3[k]) = playlist0
    /\ \A p \in ExtractorProcs : \A i \in DOMAIN ext[p].trace :
          ext[p].trace[i].op = "put" =>
              /\ ext[p].trace[i].obj = "thumbnail"
              /\ StartsAt(ext[p].trace[i].key,
                          ext[p].media_path \o <<THUMBNAILS_FOLDER, "/">>, 1)
              /\ ext[p].trace[i].key \notin PlaylistKeys
    /\ DOMAIN s3 \subseteq PlaylistKeys \cup PutByExtractor \cup PutByComposer

\* a step of the Invalidator handler
InvalidatorStep == DeliverInvalidation \/ IvStart \/ IvRecord \/ IvReturn

\* a step changes a master playlist only when it is the Composer's merge, and a step
\* of the Invalidator changes neither storage nor a queue
WrittenBy ==
    /\ (\E k \in PlaylistKeys : s3'[k] # s3[k]) => \E p \in ComposerProcs : PutPlaylist(p)
    /\ InvalidatorStep => UNCHANGED <<s3, mq, invq, mqDeleted>>

\* C30: the master playlist is changed only by the Composer's merge step: the
\* Extractor reads it and puts nothing but thumbnails under the thumbnails folder, the
\* Invalidator writes nothing to storage and publishes nothing, so in every reachable
\* state the master playlist differs from its initial content only by inserted
\* image-stream lines
C30_PlaylistChangedOnlyByMerge == [](WrittenState) /\ [][WrittenBy]_vars

\* the three stages have run: thumbnails and manifests are in storage, the master
\* playlist holds both lines, and the Invalidator has had its request accepted
C30_Witness ==
    /\ PutByExtractor # {}
    /\ HoldsReferenceIn(PlaylistKey(JobMaster), "small")
    /\ HoldsReferenceIn(PlaylistKey(JobMaster), "big")
    /\ s3[PlaylistKey(JobMaster)] # playlist0
    /\ ivh.pc = "returned"
    /\ \E i \in DOMAIN cdn : Accepted(cdn[i])

-----------------------------------------------------------------------------
(* Finding the playlist among the output file paths *)

\* the output file paths of group g, output o of the event detail
PathsAt(detail, g, o) ==
    FieldOr(FieldOr(FieldOr(detail, "outputGroupDetails", <<>>)[g],
                    "outputDetails", <<>>)[o],
            "outputFilePaths", <<>>)

\* the places <<group, output, path>> of the event detail that hold a path with the
\* playlist extension
PlaylistPlaces(detail) ==
    LET groups == FieldOr(detail, "outputGroupDetails", <<>>)
    IN  UNION { UNION { { <<g, o, i>> : i \in
                            {n \in DOMAIN PathsAt(detail, g, o) :
                                Contains(PathsAt(detail, g, o)[n], <<"m3u8">>)} } :
                        o \in DOMAIN FieldOr(groups[g], "outputDetails", <<>>) } :
                g \in DOMAIN groups }

\* place x comes before place y when groups, then outputs, then paths are gone
\* through in order
ScannedBefore(x, y) ==
    \/ x[1] < y[1]
    \/ x[1] = y[1] /\ x[2] < y[2]
    \/ x[1] = y[1] /\ x[2] = y[2] /\ x[3] < y[3]

\* the detail of the event the invocation p was given
DetailOf(p) == FieldOr(ext[p].event, "detail", [x \in {} |-> None])

\* the invocation p never reached the Extractor: nothing downloaded, sampled,
\* uploaded or published
NothingDone(p) ==
    /\ ext[p].trace = <<>>
    /\ ext[p].samples = <<>>
    /\ ext[p].keys = [small |-> <<>>, big |-> <<>>]
    /\ \A k \in DOMAIN mq : mq[k].from # p

\* C31: the Extractor handler takes as HLS URL the first path, going through output
\* groups, outputs and output file paths in order, that contains the playlist
\* extension; when no path contains it, the handler fails before it invokes the
\* Extractor, so that nothing is downloaded, sampled, uploaded or published
C31_FirstPlaylistPathOrFail ==
    \A p \in ExtractorProcs :
        ext[p].pc \notin {"off", "start"} =>
            LET places == PlaylistPlaces(DetailOf(p))
            IN  /\ places = {} =>
                      /\ ext[p].pc = "returned"
                      /\ ext[p].status # 200
                      /\ ext[p].hls_url = <<>>
                      /\ NothingDone(p)
                /\ ext[p].hls_url # <<>> =>
                      \E x \in places :
                          /\ ext[p].hls_url = PathsAt(DetailOf(p), x[1], x[2])[x[3]]
                          /\ \A y \in places : ~ScannedBefore(y, x)
                /\ ext[p].cause = "no_playlist_path" <=>
                      /\ places = {}
                      /\ Truthy(FieldOr(DetailOf(p), "mediaKey", None))
                      /\ FieldOr(DetailOf(p), "mediaKeyId", <<>>) # <<>>
                      /\ ConfigValid(cfg)

\* the playlist of b2 stands in a later output of the first group than a video file
\* and before the playlist of a1, and it is the one downloaded and published
C31_Witness ==
    /\ ext["e1"].event = GridEvent(<<2, 1, 1>>, <<1, 2, 2>>)
    /\ ext["e1"].hls_url = JobMaster.hls_url
    /\ \E i \in DOMAIN ext["e1"].trace :
          ext["e1"].trace[i].op = "get" /\ ext["e1"].trace[i].key = PlaylistKey(JobMaster)
    /\ \E k \in DOMAIN mq : mq[k].hls_url = JobMaster.hls_url

====
